---- MODULE Spec2Model ----
(***************************************************************************)
(* Model of tradingview-executor: the webhook-driven order executor.       *)
(*                                                                         *)
(* The state machine follows app/core/crypto_portfolio.py (send_order and  *)
(* the limit-order worker thread), app/core/limit_order_calculation.py     *)
(* (the pricing functions) and app/core/market_handler.py.  The exchange   *)
(* is the environment: it keeps the open orders, fills them, and answers   *)
(* or fails every call.                                                    *)
(*                                                                         *)
(* Numbers.  Python floats are modelled as exact rationals <<n, d>>.       *)
(* Prices are integers counting ticks (tick_size is one tick), and money   *)
(* is counted in the same unit, so price * quantity needs no rescaling.    *)
(***************************************************************************)
EXTENDS Integers, Sequences, FiniteSets, TLC

(***************************************************************************)
(* Bounds of the model.                                                    *)
(***************************************************************************)
\* SendOrder calls (webhook requests with send_order) served in one run
MaxCalls == 2
\* exchange calls that fail in transport (network error, timeout) in one run
MaxFaults == 1
\* fills the market performs on resting orders in one run
MaxFills == 1
\* orders the exchanges accept in one run
MaxOrders == 2

(***************************************************************************)
(* Rational arithmetic: <<n, d>> with d > 0, in lowest terms.              *)
(***************************************************************************)
RECURSIVE Gcd(_, _)
Gcd(a, b) == IF b = 0 THEN a ELSE Gcd(b, a % b)

Abs(x) == IF x < 0 THEN -x ELSE x

\* n/d with the common factor g taken out
Reduced(n, d, g) == <<n \div g, d \div g>>

R(n, d) ==
    IF n = 0 THEN <<0, 1>>
    ELSE IF d < 0 THEN Reduced(-n, -d, Gcd(Abs(n), Abs(d)))
    ELSE Reduced(n, d, Gcd(Abs(n), Abs(d)))

RInt(n) == <<n, 1>>
RZero == <<0, 1>>
ROne == <<1, 1>>
\* sums over the least common denominator and products with the common
\* factors cancelled first keep the intermediate integers small
AddOver(x, y, g) ==
    R(x[1] * (y[2] \div g) + y[1] * (x[2] \div g), (x[2] \div g) * y[2])
RAdd(x, y) == AddOver(x, y, Gcd(x[2], y[2]))
RNeg(x) == <<-x[1], x[2]>>
RSub(x, y) == RAdd(x, RNeg(y))
Cross(a, b) == <<a[1] * b[1], a[2] * b[2]>>
RMul(x, y) == Cross(R(x[1], y[2]), R(y[1], x[2]))
\* y must not be zero: callers test IsZero first, as Python raises there
RDiv(x, y) == RMul(x, IF y[1] < 0 THEN <<-y[2], -y[1]>> ELSE <<y[2], y[1]>>)
RLt(x, y) == x[1] * y[2] < y[1] * x[2]
RLe(x, y) == x[1] * y[2] <= y[1] * x[2]
RGt(x, y) == RLt(y, x)
RGe(x, y) == RLe(y, x)
IsZero(x) == x[1] = 0
RMin(x, y) == IF RLe(x, y) THEN x ELSE y
\* Python's x // 1 for a rational x: the floor
RFloor(x) == x[1] \div x[2]

(***************************************************************************)
(* Configuration (config.json) and market metadata (load_markets).         *)
(***************************************************************************)
Exchanges == {"BINANCE", "BITKUB"}
Assets == {"BTC", "ETH"}
Sides == {"buy", "sell"}

\* config[exchange]['universe']
universe(e) ==
    IF e = "BINANCE" THEN {"BTC", "ETH"}
    ELSE IF e = "KUCOIN" THEN {"BTC", "ETH", "SOL"}
    ELSE {"BTC"}

\* config[exchange]['fee'] = 0.01
fee == <<1, 100>>

\* self.allocation[symbol] = 1 / len(self.universe)
allocation(e) == R(1, Cardinality(universe(e)))

\* Config.orderbook_weights, the default of load_config
orderbook_weights == <<4, 2, 1, 1, 0, 0>>

\* "None" where the market defines no minimum (bitkub.fetch_markets sets
\* limits.amount.min to None and limits.cost.min to 10)
NoLimit == <<0, 0>>
MinCostTicks == 100
MinAmountUnits == 6
market_limits(e) ==
    IF e = "BITKUB"
    THEN [min_amount |-> NoLimit, min_cost |-> RInt(MinCostTicks)]
    ELSE [min_amount |-> RInt(MinAmountUnits), min_cost |-> RInt(MinCostTicks)]

\* a market whose minimum cost is above the budgets of the smaller balances
HighMinCostTicks == 250

\* exchange.has['fetchOpenOrders']
hasFetchOpenOrders(e) == TRUE

\* markets[symbol]['precision']['amount']: 8 decimal places (bitkub.py,
\* lines 97-101), and the units of that precision in one unit of the asset
amount_precision == 8
AmountScale == 10 ^ amount_precision

\* ticks in one unit of the base currency: price precision 1, tick 0.1
PriceScale == 10
\* precision_to_tick_size(precision), in ticks
tick_size == 1

(***************************************************************************)
(* Order books and orders.                                                 *)
(* A book side is a sequence of levels <<price, quantity>>: price in       *)
(* ticks, quantity a rational.  An order is a record; NoOrder is None.     *)
(***************************************************************************)
NoOrder == [id |-> 0, exch |-> "", asset |-> "", side |-> "", price |-> 0,
            amount |-> RZero, remaining |-> RZero, status |-> "none", owner |-> 0]

(***************************************************************************)
(* app/core/limit_order_calculation.py                                     *)
(***************************************************************************)
Priced(v) == [err |-> "none", val |-> v]
Raised(e) == [err |-> e, val |-> 0]

\* 0.01 of the quantity thresholds
OnePercent == <<1, 100>>

\* the quantity of a level, less the remaining amount of the current order
\* when the level is at the order's price
LevelQuantity(level, current_order) ==
    IF current_order # NoOrder /\ level[1] = current_order.price
    THEN RSub(level[2], current_order.remaining)
    ELSE level[2]

\* the scan of adjust_price_for_profit from level i on; 0 when no level
\* qualifies (adjusted_price keeps its initial 0)
RECURSIVE AdjustScan(_, _, _, _, _, _)
AdjustScan(levels, i, price, is_buy, current_order, quantity_threshold) ==
    IF i > Len(levels) THEN 0
    ELSE IF /\ current_order # NoOrder
            /\ RLe(LevelQuantity(levels[i], current_order), quantity_threshold)
    THEN AdjustScan(levels, i + 1, price, is_buy, current_order, quantity_threshold)
    ELSE IF /\ IF is_buy THEN levels[i][1] < price ELSE levels[i][1] > price
            /\ RGe(LevelQuantity(levels[i], current_order), quantity_threshold)
    THEN (IF is_buy THEN levels[i][1] + tick_size ELSE levels[i][1] - tick_size)
    ELSE AdjustScan(levels, i + 1, price, is_buy, current_order, quantity_threshold)

\* float(Decimal(adjusted_price).quantize(Decimal(str(tick_size)))): a price
\* that is a whole number of ticks is kept by the quantization
adjust_price_for_profit(price, order_book_side, is_buy, current_order, quantity_threshold) ==
    AdjustScan(order_book_side, 1, price, is_buy, current_order,
               quantity_threshold)

RECURSIVE SumFrom(_, _)
SumFrom(seq, i) == IF i > Len(seq) THEN 0 ELSE seq[i] + SumFrom(seq, i + 1)

Min2(a, b) == IF a < b THEN a ELSE b

\* the level is the current order's and what is left of it is under 1% of
\* the order: continue
SkipLevel(level, current_order) ==
    /\ current_order # NoOrder
    /\ level[1] = current_order.price
    /\ RLt(LevelQuantity(level, current_order),
           RMul(current_order.remaining, OnePercent))

\* one level added to the sums; acc = [wi, first, wps, wqs], first = 0
\* stands for first_order_book_level = -1
Accumulate(acc, i, price, quantity, w) ==
    [wi |-> acc.wi + 1,
     first |-> IF acc.first = 0 THEN i ELSE acc.first,
     wps |-> RAdd(acc.wps, RMul(RMul(RInt(price), quantity), w)),
     wqs |-> RAdd(acc.wqs, RMul(quantity, w))]

\* the loop of calculate_weighted_average_price over range(min(len(weights)
\* - 1, len(levels)))
RECURSIVE WeightedLoop(_, _, _, _)
WeightedLoop(levels, i, current_order, acc) ==
    IF i > Min2(Len(orderbook_weights) - 1, Len(levels)) THEN acc
    ELSE IF SkipLevel(levels[i], current_order)
    THEN WeightedLoop(levels, i + 1, current_order, acc)
    ELSE WeightedLoop(levels, i + 1, current_order,
                      Accumulate(acc, i, levels[i][1],
                                 LevelQuantity(levels[i], current_order),
                                 RInt(orderbook_weights[acc.wi + 2])))

\* levels[first_order_book_level][0] +- tick_size; index -1 is the last level
AdjustedBest(levels, acc, is_buy) ==
    IF is_buy
    THEN levels[IF acc.first = 0 THEN Len(levels) ELSE acc.first][1] + tick_size
    ELSE levels[IF acc.first = 0 THEN Len(levels) ELSE acc.first][1] - tick_size

\* the sums with the adjusted best level added under weights[0]
WithBest(acc, adjusted_best_price, adjusted_best_quantity, w0) ==
    [wps |-> RAdd(acc.wps, RMul(RMul(RInt(adjusted_best_price),
                                     adjusted_best_quantity), w0)),
     wqs |-> RAdd(acc.wqs, RMul(adjusted_best_quantity, w0))]

\* weighted_price_sum / weighted_quantity_sum, rounded up to the tick for a
\* buy ((x // tick + 1) * tick) and down for a sell
RoundToTick(sums, is_buy) ==
    IF IsZero(sums.wqs) THEN Raised("ZeroDivisionError")
    ELSE IF is_buy
    THEN Priced((RFloor(RDiv(RDiv(sums.wps, sums.wqs), RInt(tick_size))) + 1)
                * tick_size)
    ELSE Priced(RFloor(RDiv(RDiv(sums.wps, sums.wqs), RInt(tick_size))) * tick_size)

\* the statements after the loop
WeightedFinish(levels, is_buy, acc, wsum) ==
    IF Len(levels) = 0 THEN Raised("IndexError")
    ELSE IF wsum = 0 THEN Raised("ZeroDivisionError")
    ELSE RoundToTick(WithBest(acc, AdjustedBest(levels, acc, is_buy),
                              RDiv(acc.wqs, RInt(wsum)),
                              RInt(orderbook_weights[1])),
                     is_buy)

calculate_weighted_average_price(levels, is_buy, current_order) ==
    WeightedFinish(levels, is_buy,
                   WeightedLoop(levels, 1, current_order,
                                [wi |-> 0, first |-> 0, wps |-> RZero, wqs |-> RZero]),
                   SumFrom(orderbook_weights, 2))

Strategies == {"BEST_BID_OR_ASK", "BETTER_THAN_BEST_PRICE", "WEIGHTED_AVERAGE"}

\* the strategies that read the best level alone
BestLevelPrice(levels, strategy, current_order, step) ==
    IF Len(levels) = 0 THEN Raised("IndexError")
    ELSE IF strategy = "BEST_BID_OR_ASK" THEN Priced(levels[1][1])
    ELSE IF current_order # NoOrder /\ current_order.price = levels[1][1]
    THEN Priced(levels[1][1])
    ELSE Priced(levels[1][1] + step)

\* a buy price that goes one tick inside the spread under every strategy
limit_buy_price_one_tick_in(order_book, strategy, current_order) ==
    BestLevelPrice(order_book.bids, "BETTER_THAN_BEST_PRICE", current_order, tick_size)

calculate_limit_buy_price(order_book, strategy, current_order) ==
    IF strategy = "WEIGHTED_AVERAGE"
    THEN calculate_weighted_average_price(order_book.bids, TRUE, current_order)
    ELSE BestLevelPrice(order_book.bids, strategy, current_order, tick_size)

calculate_limit_sell_price(order_book, strategy, current_order) ==
    IF strategy = "WEIGHTED_AVERAGE"
    THEN calculate_weighted_average_price(order_book.asks, FALSE, current_order)
    ELSE BestLevelPrice(order_book.asks, strategy, current_order, -tick_size)

(***************************************************************************)
(* app/core/crypto_portfolio.py: the pricing helpers of the worker.        *)
(* They return [err, price, amount].                                       *)
(***************************************************************************)
NoInitial(err) == [err |-> err, price |-> 0, amount |-> RZero]

\* amount = base_amount / price, with the adjusted price
InitialBuyAt(price, base_amount) ==
    IF price = 0 THEN NoInitial("ZeroDivisionError")
    ELSE [err |-> "none", price |-> price,
          amount |-> RDiv(base_amount, RInt(price))]

\* amount = base_amount / price, then adjust_price_for_profit
InitialBuyFrom(p, order_book, base_amount) ==
    IF p.err # "none" THEN NoInitial(p.err)
    ELSE IF p.val = 0 THEN NoInitial("ZeroDivisionError")
    ELSE InitialBuyAt(
             adjust_price_for_profit(p.val, order_book.bids, TRUE, NoOrder,
                 RMul(RDiv(base_amount, RInt(p.val)), OnePercent)),
             base_amount)

calculate_initial_buy_price(order_book, base_amount, limit_order_strategy) ==
    InitialBuyFrom(calculate_limit_buy_price(order_book, limit_order_strategy, NoOrder),
                   order_book, base_amount)

InitialSellFrom(p, order_book, quote_amount) ==
    IF p.err # "none" THEN NoInitial(p.err)
    ELSE [err |-> "none",
          price |-> adjust_price_for_profit(p.val, order_book.asks, FALSE, NoOrder,
                                            RMul(quote_amount, OnePercent)),
          amount |-> quote_amount]

\* calculate_limit_sell_price(order_book, limit_order_strategy): tick_size is
\* left at its default 0.01, which is the tick of this market
calculate_initial_sell_price(order_book, quote_amount, limit_order_strategy) ==
    InitialSellFrom(calculate_limit_sell_price(order_book, limit_order_strategy, NoOrder),
                    order_book, quote_amount)

\* adjust_price_for_profit on the price p of the strategy
TargetFrom(p, order_book_side, is_buy, order, remaining) ==
    IF p.err # "none" THEN p
    ELSE Priced(adjust_price_for_profit(p.val, order_book_side, is_buy, order,
                                        RMul(remaining, OnePercent)))

calculate_target_price(order_book, remaining, order, limit_order_strategy) ==
    IF order = NoOrder THEN Raised("TypeError")
    ELSE IF order.side = "buy"
    THEN TargetFrom(calculate_limit_buy_price(order_book, limit_order_strategy, order),
                    order_book.bids, TRUE, order, remaining)
    ELSE TargetFrom(calculate_limit_sell_price(order_book, limit_order_strategy, order),
                    order_book.asks, FALSE, order, remaining)


(***************************************************************************)
(* What the exchange can answer (the environment's inputs).                *)
(***************************************************************************)
\* last price of every asset (fetch_ticker, fetch_tickers), in ticks
LastPrice == 10

\* fetch_balance: free balances, the base currency in ticks
Snapshots(e) ==
    IF e = "BINANCE"
    THEN { [base |-> 2000, BTC |-> 0, ETH |-> 0],
           [base |-> 0,    BTC |-> 0, ETH |-> 20],
           [base |-> 204,  BTC |-> 0, ETH |-> 20] }
    ELSE { [base |-> 2000, BTC |-> 0, ETH |-> 20],
           [base |-> 110,  BTC |-> 0, ETH |-> 20] }

\* resting orders of the other market participants
ExtBooks ==
    { [bids |-> << <<10, <<50, 1>> >>, <<9, <<50, 1>> >> >>,
       asks |-> << <<13, <<50, 1>> >>, <<14, <<50, 1>> >> >>],
      [bids |-> << <<11, <<50, 1>> >>, <<10, <<50, 1>> >> >>,
       asks |-> << <<12, <<50, 1>> >>, <<13, <<50, 1>> >> >>],
      [bids |-> << >>, asks |-> << >>] }

(***************************************************************************)
(* State.                                                                  *)
(***************************************************************************)
VARIABLES
    threads,               \* CryptoPortfolio.threads: asset -> worker, 0 is None
    stop_worker,           \* CryptoPortfolio.stop_worker: asset -> flag
    holding_weight,        \* CryptoPortfolio.holding_weight: asset -> weight
    total_holding_weight,  \* self.total_holding_weight of each portfolio
    so,                    \* the SendOrder call the webhook handler is serving
    calls,                 \* SendOrder calls started so far
    workers,               \* the worker threads, indexed by the call that started them
    orders,                \* the exchanges' order records, indexed by order id
    faults,                \* exchange calls failed in transport so far
    fills,                 \* fills performed by the market so far
    web,                   \* the webhook handler: environment, request, answers
    registry,              \* the MarketHandler singleton and its last balance
    pricing,               \* the calls of the pricing functions and their results
    adapter,               \* the exchange adapters: what they can do and accept
    sizing,                \* the sizing computations on one snapshot and their results
    balancing              \* compute_holding_weight of the balance endpoint's thread

\* the state of the portfolios, their workers and the exchanges
trading == <<threads, stop_worker, holding_weight, total_holding_weight, so, calls,
             workers, orders, faults, fills>>

vars == <<trading, web, registry, pricing, adapter, sizing, balancing>>

WorkerIds == 1..MaxCalls

\* an adapter that says it can fetch an order whether it can or not
hasFetchOrder_always(e) == TRUE

\* exchange.has['fetchOrder'], line 378
hasFetchOrder(e) == adapter.fetchOrder[e]

\* the adapters of ccxt and of ccxt_ext/bitkub.py: every one has fetchOrder;
\* they accept capacity orders in one run
Adapters(capacity) ==
    [fetchOrder |-> [e \in Exchanges |-> TRUE], capacity |-> capacity,
     limits |-> [e \in Exchanges |-> market_limits(e)]]

\* get_min_trade_amount (lines 299-306): min_amount and min_cost of the
\* market, as load_markets has stored them in market_info
get_min_trade_amount(e) == adapter.limits[e]

\* a key that is not in the holding_weight dict
Absent == <<0, 0>>

IdleWorker ==
    [pc |-> "idle", exch |-> "", asset |-> "", side |-> "", amount |-> RZero,
     order |-> NoOrder, remaining |-> RZero, target |-> 0, pending |-> << >>,
     at_target |-> FALSE, notes |-> {}]

\* get_available_base_balance_for_asset has not been called
NoAvail == [err |-> "unset", val |-> 0]

IdleCall ==
    [pc |-> "idle", id |-> 0, exch |-> "", asset |-> "", side |-> "",
     open0 |-> {}, waited |-> 0, netfail |-> FALSE,
     base |-> RZero, avail |-> NoAvail, amount |-> RZero, cost |-> RZero,
     sized |-> FALSE, market |-> 0, result |-> "none",
     notes |-> {}]

\* the webhook handler between two requests, ORDER_EXECUTION_SECRET being
\* secret: the request served last and its answer, the messages given to the
\* notification service and the orders given to the MarketHandler
Handler(secret) ==
    [env_secret |-> secret, pc |-> "idle", served |-> 0,
     body |-> [kind |-> "none"], status |-> 0, undelivered |-> FALSE,
     channel |-> << >>, dispatched |-> << >>]


\* no compute_holding_weight of the balance endpoint is under way, after n
NotBalancing(n) ==
    [pc |-> "idle", exch |-> "", s |-> [base |-> 0, BTC |-> 0, ETH |-> 0],
     todo |-> << >>, calls |-> n]

\* no signal has arrived
TradingInit ==
    /\ threads = [a \in Assets |-> 0]
    /\ stop_worker = [a \in Assets |-> FALSE]
    /\ holding_weight = [a \in Assets |-> Absent]
    /\ total_holding_weight = [e \in Exchanges |-> RZero]
    /\ so = IdleCall
    /\ calls = 0
    /\ workers = [w \in WorkerIds |-> IdleWorker]
    /\ orders = << >>
    /\ faults = 0
    /\ fills = 0

Init ==
    /\ TradingInit
    /\ web = Handler("")
    /\ registry = [built |-> FALSE]
    /\ pricing = << >>
    /\ sizing = << >>
    /\ balancing = NotBalancing(0)
    /\ adapter = Adapters(MaxOrders)

(***************************************************************************)
(* The exchange (ccxt adapters, app/core/ccxt_ext/bitkub.py).              *)
(***************************************************************************)
OpenIds(e, a) ==
    {i \in 1..Len(orders) :
        orders[i].exch = e /\ orders[i].asset = a /\ orders[i].status = "open"}

\* a transport failure of one exchange call
Fault == faults < MaxFaults /\ faults' = faults + 1
NoFault == faults' = faults

\* cancel_order(id, symbol, params): BITKUB's cancel request carries the side
\* 'sd' of params and the exchange cancels only an order of that side
CancelAccepted(e, id, sd) ==
    /\ orders[id].status = "open"
    /\ e = "BITKUB" => sd = orders[id].side

Cancelled(id) == [orders EXCEPT ![id].status = "canceled"]

\* set to sequence, in increasing id order (fetch_open_orders lists them)
RECURSIVE SetToSeq(_)
SetToSeq(S) ==
    IF S = {} THEN << >>
    ELSE LET m == CHOOSE x \in S : \A y \in S : x <= y
         IN  <<m>> \o SetToSeq(S \ {m})

(***************************************************************************)
(* CryptoPortfolio.compute_holding_weight and the sizing functions.        *)
(***************************************************************************)
Bal(s, a) == IF a = "BTC" THEN s.BTC ELSE IF a = "ETH" THEN s.ETH ELSE s.SOL

RECURSIVE SumOver(_, _)
SumOver(S, f) ==
    IF S = {} THEN RZero
    ELSE RAdd(f[CHOOSE y \in S : TRUE], SumOver(S \ {CHOOSE y \in S : TRUE}, f))

\* market_value[asset] = balance * avg_price
market_value(e, s) == [a \in universe(e) |-> RInt(Bal(s, a) * LastPrice)]

\* total_asset_value: the base balance plus every market value
total_asset_value(e, s) == RAdd(RInt(s.base), SumOver(universe(e), market_value(e, s)))

\* holding_weight[asset] = market_value / total_asset_value if it is > 0 else 0
WeightsOf(e, values, total) ==
    [a \in universe(e) |-> IF RGt(total, RZero) THEN RDiv(values[a], total) ELSE RZero]

\* compute_holding_weight of portfolio e on the balances s: the weights it
\* writes (the keys of its universe) and the total it stores
WithTotal(e, hw) ==
    [holding_weight |-> hw, total_holding_weight |-> SumOver(universe(e), hw)]

compute_holding_weight(e, s) ==
    WithTotal(e, WeightsOf(e, market_value(e, s), total_asset_value(e, s)))

\* 0.99 of get_available_base_balance_for_asset
NearTarget == <<99, 100>>

\* the near-target test read the other way round: 0 when the holding is at
\* most 0.99 of the allocation
available_inverted(e, asset, hw, total, base_balance) ==
    IF hw[asset] = Absent \/ asset \notin universe(e) THEN Raised("KeyError")
    ELSE IF RLe(hw[asset], RMul(allocation(e), NearTarget)) THEN Priced(RZero)
    ELSE IF RGt(allocation(e), hw[asset])
    THEN IF IsZero(RSub(ROne, total)) THEN Raised("ZeroDivisionError")
         ELSE Priced(RMul(RMin(ROne, RDiv(RSub(allocation(e), hw[asset]),
                                          RSub(ROne, total))),
                          base_balance))
    ELSE Raised("TypeError")

\* get_available_base_balance_for_asset(asset), reading the shared
\* holding_weight dict hw, the portfolio's total and the base balance
get_available_base_balance_for_asset(e, asset, hw, total, base_balance) ==
    IF hw[asset] = Absent \/ asset \notin universe(e) THEN Raised("KeyError")
    ELSE IF RGt(hw[asset], RMul(allocation(e), NearTarget)) THEN Priced(RZero)
    ELSE IF RGt(allocation(e), hw[asset])
    THEN IF IsZero(RSub(ROne, total)) THEN Raised("ZeroDivisionError")
         ELSE Priced(RMul(RMin(ROne, RDiv(RSub(allocation(e), hw[asset]),
                                          RSub(ROne, total))),
                          base_balance))
    \* neither branch returns: None, and None * (1 - fee) raises
    ELSE Raised("TypeError")

Falsy(x) == x[1] = 0

\* 1.2 of the gate of send_order: min_cost plus 20% for price fluctuation
CostMargin == <<6, 5>>

\* the gate with the cost compared to min_cost itself
passes_gate_without_margin(e, amount, cost) ==
    \/ /\ ~Falsy(get_min_trade_amount(e).min_amount)
       /\ RGt(amount, get_min_trade_amount(e).min_amount)
    \/ /\ ~Falsy(get_min_trade_amount(e).min_cost)
       /\ RGt(cost, get_min_trade_amount(e).min_cost)

\* the gate of send_order (lines 356 and 371)
passes_gate(e, amount, cost) ==
    \/ /\ ~Falsy(get_min_trade_amount(e).min_amount)
       /\ RGt(amount, get_min_trade_amount(e).min_amount)
    \/ /\ ~Falsy(get_min_trade_amount(e).min_cost)
       /\ RGt(cost, RMul(get_min_trade_amount(e).min_cost, CostMargin))

(***************************************************************************)
(* CryptoPortfolio.send_order, as the webhook handler runs it.             *)
(* The handler is an async function that calls send_order without          *)
(* awaiting: the event loop serves one webhook request at a time, so one   *)
(* record holds the call in progress.                                      *)
(***************************************************************************)
Returned(call, result) == [call EXCEPT !.pc = "idle", !.result = result]

\* the side the sweep puts in the cancel request: {'sd': side}
sweep_cancel_side(call, order) == call.side

\* lines 312-321: parse the signal, set the stop flag of a running worker
SendOrderStart(e, a, side) ==
    /\ so.pc = "idle"
    /\ calls < MaxCalls
    /\ calls' = calls + 1
    /\ stop_worker' = IF threads[a] # 0 THEN [stop_worker EXCEPT ![a] = TRUE]
                      ELSE stop_worker
    /\ so' = [IdleCall EXCEPT !.pc = IF threads[a] # 0 THEN "wait" ELSE "sweep",
                              !.id = calls + 1, !.exch = e, !.asset = a,
                              !.side = side, !.open0 = OpenIds(e, a),
                              !.waited = threads[a]]
    /\ UNCHANGED <<threads, holding_weight, total_holding_weight, workers, orders,
                   faults, fills, web, registry, pricing, adapter, sizing, balancing>>

\* a wait that does not look at the handle
wait_is_skipped(a) == TRUE

\* a wait that ends as soon as the stop flag is set
wait_until_flagged(a) == stop_worker[a]

\* the guard that ends the loop of lines 320-321
wait_is_over(a) == threads[a] = 0

\* lines 320-321: while the handle is set, sleep(1)
SendOrderWait ==
    /\ so.pc = "wait"
    /\ wait_is_over(so.asset)
    /\ so' = [so EXCEPT !.pc = "sweep"]
    /\ UNCHANGED <<threads, stop_worker, holding_weight, total_holding_weight, calls,
                   workers, orders, faults, fills, web, registry, pricing, adapter, sizing, balancing>>

\* lines 326-335: cancel the fetched orders one after the other; a request
\* that fails in transport (those of lost) is logged and skipped
RECURSIVE SweepCancel(_, _, _, _)
SweepCancel(ords, ids, call, lost) ==
    IF ids = << >> THEN ords
    ELSE IF /\ Head(ids) \notin lost
            /\ ords[Head(ids)].status = "open"
            /\ call.exch = "BITKUB" =>
                   sweep_cancel_side(call, ords[Head(ids)]) = ords[Head(ids)].side
    THEN SweepCancel([ords EXCEPT ![Head(ids)].status = "canceled"], Tail(ids),
                     call, lost)
    ELSE SweepCancel(ords, Tail(ids), call, lost)

\* what fetch_open_orders(symbol) returns
fetch_open_orders(e, a) ==
    IF hasFetchOpenOrders(e) THEN SetToSeq(OpenIds(e, a)) ELSE << >>

\* lines 323-335: fetch_open_orders(symbol), then the cancel loop
SendOrderSweep ==
    /\ so.pc = "sweep"
    /\ \/ \E lost \in SUBSET OpenIds(so.exch, so.asset) :
            /\ Cardinality(lost) <= MaxFaults - faults
            /\ faults' = faults + Cardinality(lost)
            /\ orders' = SweepCancel(orders, fetch_open_orders(so.exch, so.asset),
                                     so, lost)
            /\ so' = [so EXCEPT !.pc = "size", !.netfail = lost # {}]
       \/ /\ Fault      \* fetch_open_orders raises
          /\ orders' = orders
          /\ so' = Returned(so, "raised")
    /\ UNCHANGED <<threads, stop_worker, holding_weight, total_holding_weight, calls,
                   workers, fills, web, registry, pricing, adapter, sizing, balancing>>

\* a universe check that lets every asset pass
universe_unchecked(e, a) == TRUE

\* line 339: the universe check of the buy path
in_universe(e, a) == a \in universe(e)

\* send_limit_order: the thread is stored, the flag cleared, the thread started
send_limit_order(call, amount) ==
    /\ threads' = [threads EXCEPT ![call.asset] = call.id]
    /\ stop_worker' = [stop_worker EXCEPT ![call.asset] = FALSE]
    /\ workers' = [workers EXCEPT ![call.id] =
                      [IdleWorker EXCEPT !.pc = "start", !.exch = call.exch,
                                         !.asset = call.asset, !.side = call.side,
                                         !.amount = amount]]

\* compute_holding_weight as send_order calls it: the weights of the
\* portfolio's universe are written into the shared dict
StoreWeights(e, c) ==
    /\ holding_weight' = [a \in Assets |->
                             IF a \in universe(e) THEN c.holding_weight[a]
                             ELSE holding_weight[a]]
    /\ total_holding_weight' =
           [total_holding_weight EXCEPT ![e] = c.total_holding_weight]

\* lines 338-342: a buy for an asset outside the universe is refused
SendOrderReject ==
    /\ so.pc = "size"
    /\ so.side = "buy"
    /\ ~in_universe(so.exch, so.asset)
    /\ so' = Returned([so EXCEPT !.notes = @ \cup {"not_in_universe"}], "rejected")
    /\ UNCHANGED <<threads, stop_worker, holding_weight, total_holding_weight, calls,
                   workers, orders, faults, fills, web, registry, pricing, adapter, sizing, balancing>>

\* the call with the amount and the cost the gate has seen
Sized(call, amount, cost) ==
    [call EXCEPT !.sized = TRUE, !.amount = amount, !.cost = cost]

\* the gate and __send_order(asset, side, order_amount, ...), lines 374-381:
\* a worker where the adapter has fetchOrder, a market order where not
GateAndLaunch(call, amount, cost, order_amount) ==
    IF ~passes_gate(call.exch, amount, cost)
    THEN /\ so' = Returned(Sized(call, amount, cost), "below_min")
         /\ UNCHANGED <<threads, stop_worker, workers>>
    ELSE IF hasFetchOrder(call.exch)
    THEN /\ so' = Returned(Sized(call, amount, cost), "launched")
         /\ send_limit_order(call, order_amount)
    ELSE /\ so' = [Sized(call, amount, cost) EXCEPT !.pc = "market"]
         /\ UNCHANGED <<threads, stop_worker, workers>>

\* lines 345-357: base_amount = available * (1 - fee), amount = base_amount /
\* price; the worker is given base_amount
BuyWith(call, avail) ==
    IF avail.err # "none"
    THEN /\ so' = Returned([call EXCEPT !.avail = avail], avail.err)
         /\ UNCHANGED <<threads, stop_worker, workers>>
    ELSE GateAndLaunch([call EXCEPT !.avail = avail],
                       RDiv(RMul(avail.val, RSub(ROne, fee)), RInt(LastPrice)),
                       RMul(avail.val, RSub(ROne, fee)),
                       RMul(avail.val, RSub(ROne, fee)))

\* lines 343-357: size a buy from the available base balance, apply the
\* gate, start the worker
SendOrderBuy ==
    /\ so.pc = "size"
    /\ so.side = "buy"
    /\ in_universe(so.exch, so.asset)
    /\ NoFault
    /\ \E s \in Snapshots(so.exch) :
         /\ StoreWeights(so.exch, compute_holding_weight(so.exch, s))
         /\ BuyWith([so EXCEPT !.base = RInt(s.base)],
                    get_available_base_balance_for_asset(
                        so.exch, so.asset, holding_weight',
                        total_holding_weight'[so.exch], RInt(s.base)))
    /\ UNCHANGED <<calls, orders, fills, web, registry, pricing, adapter, sizing, balancing>>

\* lines 361-372: quote_amount = get_balance(asset); line 365 reads
\* self.holding_weight[asset] for the log
SellWith(call, quote_amount) ==
    IF holding_weight'[call.asset] = Absent
    THEN /\ so' = Returned(Sized(call, quote_amount,
                                 RMul(quote_amount, RInt(LastPrice))), "KeyError")
         /\ UNCHANGED <<threads, stop_worker, workers>>
    ELSE GateAndLaunch(call, quote_amount, RMul(quote_amount, RInt(LastPrice)),
                       quote_amount)

\* lines 358-372: size a sell from the asset's balance, apply the gate,
\* start the worker
SendOrderSell ==
    /\ so.pc = "size"
    /\ so.side = "sell"
    /\ NoFault
    /\ \E s \in Snapshots(so.exch) :
         /\ StoreWeights(so.exch, compute_holding_weight(so.exch, s))
         /\ SellWith(so, RInt(Bal(s, so.asset)))
    /\ UNCHANGED <<calls, orders, fills, web, registry, pricing, adapter, sizing, balancing>>

\* the market order create_order has accepted: it is matched at once
MarketOrder(call) ==
    [NoOrder EXCEPT !.id = Len(orders) + 1, !.exch = call.exch, !.asset = call.asset,
                    !.side = call.side,
                    !.amount = IF call.side = "buy" THEN call.cost ELSE call.amount,
                    !.status = "closed"]

\* send_market_order, lines 383-396: one create_order of type 'market' with
\* the amount __send_order was given; both outcomes are notified
SendOrderMarket ==
    /\ so.pc = "market"
    /\ \/ /\ NoFault
          /\ Len(orders) < adapter.capacity
          /\ orders' = Append(orders, MarketOrder(so))
          /\ so' = Returned([so EXCEPT !.market = @ + 1,
                                       !.notes = @ \cup {"order_matched"}], "market")
       \/ /\ NoFault      \* the exchange refuses the order
          /\ Len(orders) >= adapter.capacity
          /\ orders' = orders
          /\ so' = Returned([so EXCEPT !.market = @ + 1,
                                       !.notes = @ \cup {"market_failed"}], "market")
       \/ /\ Fault
          /\ orders' = orders
          /\ so' = Returned([so EXCEPT !.market = @ + 1,
                                       !.notes = @ \cup {"market_failed"}], "market")
    /\ UNCHANGED <<threads, stop_worker, holding_weight, total_holding_weight, calls,
                   workers, fills, web, registry, pricing, adapter, sizing, balancing>>

\* fetch_balance or fetch_ticker of lines 343-346 and 360-362 fails in transport
SendOrderSizeFault ==
    /\ so.pc = "size"
    /\ so.side = "buy" => in_universe(so.exch, so.asset)
    /\ Fault
    /\ so' = Returned(so, "raised")
    /\ UNCHANGED <<threads, stop_worker, holding_weight, total_holding_weight, calls,
                   workers, orders, fills, web, registry, pricing, adapter, sizing, balancing>>

(***************************************************************************)
(* The order book a worker fetches: the other participants' levels with    *)
(* the account's own open orders resting among them.                       *)
(***************************************************************************)
RECURSIVE InsertLevel(_, _, _, _)
InsertLevel(levels, price, qty, descending) ==
    IF levels = << >> THEN << <<price, qty>> >>
    ELSE LET h == Head(levels)
         IN  IF h[1] = price THEN << <<price, RAdd(h[2], qty)>> >> \o Tail(levels)
             ELSE IF (descending /\ h[1] < price) \/ (~descending /\ h[1] > price)
             THEN << <<price, qty>> >> \o levels
             ELSE <<h>> \o InsertLevel(Tail(levels), price, qty, descending)

RECURSIVE InsertOrders(_, _, _)
InsertOrders(levels, ids, descending) ==
    IF ids = << >> THEN levels
    ELSE InsertOrders(InsertLevel(levels, orders[Head(ids)].price,
                                  orders[Head(ids)].remaining, descending),
                      Tail(ids), descending)

fetch_order_book(e, a, ext) ==
    [bids |-> InsertOrders(ext.bids,
                 SetToSeq({i \in OpenIds(e, a) : orders[i].side = "buy"}), TRUE),
     asks |-> InsertOrders(ext.asks,
                 SetToSeq({i \in OpenIds(e, a) : orders[i].side = "sell"}), FALSE)]

(***************************************************************************)
(* Price strings.  str(order["price"]) is Python's repr of a float; the    *)
(* target is exchange.price_to_precision, which pads nothing: a whole      *)
(* number prints as '1.0' and is quantized to '1'.                       *)
(* A string is <<integer part, fraction digits>>.                          *)
(***************************************************************************)
FracDigits(p) == IF p % PriceScale = 0 THEN << >> ELSE <<p % PriceScale>>

PyStr(p) ==
    <<p \div PriceScale, IF p % PriceScale = 0 THEN <<0>> ELSE FracDigits(p)>>

price_to_precision(p) == <<p \div PriceScale, FracDigits(p)>>

should_update_order(order, target_price) ==
    PyStr(order.price) # price_to_precision(target_price)

(***************************************************************************)
(* CryptoPortfolio.__limit_order_worker: one thread per launched worker.   *)
(***************************************************************************)
\* trading_service.send_order always passes WEIGHTED_AVERAGE
limit_order_strategy == "WEIGHTED_AVERAGE"

\* create_order: the exchange accepts a limit order with a positive price
\* and a positive amount, and refuses every order past its capacity
CreateAccepted(price, amount) ==
    price > 0 /\ RGt(amount, RZero) /\ Len(orders) < adapter.capacity

NewOrder(w, price, amount) ==
    [id |-> Len(orders) + 1, exch |-> workers[w].exch, asset |-> workers[w].asset,
     side |-> workers[w].side, price |-> price, amount |-> amount,
     remaining |-> amount,
     status |-> "open", owner |-> w]

\* a thread that has ended keeps none of its locals
Ended(me, pc) ==
    [me EXCEPT !.pc = pc, !.order = NoOrder, !.remaining = RZero, !.target = 0,
               !.amount = RZero, !.pending = << >>]

\* an uncaught exception ends the thread where it is raised
Dies(w) == [workers EXCEPT ![w] = Ended(@, "dead")]

\* the thread returns, having sent the notifications of notes
Exits(w, notes) ==
    [workers EXCEPT ![w] = [Ended(@, "exited") EXCEPT !.notes = @ \cup notes]]

\* the worker's last statement: self.threads[asset] = None
clear_handle(w) == threads' = [threads EXCEPT ![workers[w].asset] = 0]

\* lines 424-433: the price and the amount of the first order
InitialOf(me, order_book) ==
    IF me.side = "buy"
    THEN calculate_initial_buy_price(order_book, me.amount, limit_order_strategy)
    ELSE calculate_initial_sell_price(order_book, me.amount, limit_order_strategy)

\* the loop is entered with the order the exchange has accepted
Placed(w, ord, remaining) ==
    [workers EXCEPT ![w].pc = "loop", ![w].order = ord, ![w].remaining = remaining,
                    ![w].target = 0, ![w].notes = @ \cup {"order_info"}]

\* lines 435-441: submit the first order
PlaceWith(w, init) ==
    \/ /\ NoFault
       /\ init.err # "none"
       /\ workers' = Dies(w)
       /\ UNCHANGED <<threads, orders>>
    \/ /\ NoFault
       /\ init.err = "none"
       /\ IF CreateAccepted(init.price, init.amount)
          THEN /\ orders' = Append(orders, NewOrder(w, init.price, init.amount))
               /\ workers' = Placed(w, NewOrder(w, init.price, init.amount),
                                    init.amount)
               /\ UNCHANGED threads
          ELSE /\ workers' = Exits(w, {"create_failed"})
               /\ clear_handle(w)
               /\ UNCHANGED orders
    \/ /\ Fault      \* create_order raises
       /\ init.err = "none"
       /\ workers' = Exits(w, {"create_failed"})
       /\ clear_handle(w)
       /\ UNCHANGED orders

\* lines 418-441: fetch the book, price the first order, submit it
WorkerPlace(w) ==
    /\ workers[w].pc = "start"
    /\ \E ext \in ExtBooks :
         PlaceWith(w, InitialOf(workers[w],
                                fetch_order_book(workers[w].exch, workers[w].asset, ext)))
    /\ UNCHANGED <<stop_worker, holding_weight, total_holding_weight, so, calls, fills, web, registry, pricing, adapter, sizing, balancing>>

\* line 424: fetch_order_book raises, outside any try
WorkerPlaceRaises(w) ==
    /\ workers[w].pc = "start"
    /\ Fault
    /\ workers' = Dies(w)
    /\ UNCHANGED <<threads, stop_worker, holding_weight, total_holding_weight, so,
                   calls, orders, fills, web, registry, pricing, adapter, sizing, balancing>>

\* a stop that takes the worker's order off the book before it ends
WorkerStop_cancelling(w) ==
    /\ workers[w].pc = "loop"
    /\ stop_worker[workers[w].asset]
    /\ workers' = Exits(w, {})
    /\ clear_handle(w)
    /\ orders' = IF workers[w].order # NoOrder THEN Cancelled(workers[w].order.id)
                 ELSE orders
    /\ UNCHANGED <<stop_worker, holding_weight, total_holding_weight, so, calls,
                   faults, fills, web, registry, pricing, adapter, sizing, balancing>>

\* line 444 and lines 478-483: the stop flag ends the loop, the handle is cleared
WorkerStop(w) ==
    /\ workers[w].pc = "loop"
    /\ stop_worker[workers[w].asset]
    /\ workers' = Exits(w, {})
    /\ clear_handle(w)
    /\ UNCHANGED <<stop_worker, holding_weight, total_holding_weight, so, calls,
                   orders, faults, fills, web, registry, pricing, adapter, sizing, balancing>>

\* lines 445-448: the target price of one iteration on the fetched book
TargetOf(me, ext) ==
    calculate_target_price(fetch_order_book(me.exch, me.asset, ext), me.remaining,
                           me.order, limit_order_strategy)

\* line 449, and line 455 which divides by float(target_price) for a buy
Updates(me, tp) == tp.err = "none" /\ should_update_order(me.order, tp.val)
UpdateRaises(me, tp) == Updates(me, tp) /\ me.side = "buy" /\ tp.val = 0

\* a pricing function raises, or the replacement amount divides by zero
IterationRaises(me, tp) == tp.err # "none" \/ UpdateRaises(me, tp)

\* lines 445-457: an iteration that raises, outside any try
WorkerIterateRaises(w) ==
    /\ workers[w].pc = "loop"
    /\ ~stop_worker[workers[w].asset]
    /\ \/ Fault      \* fetch_order_book raises
       \/ /\ NoFault
          /\ \E ext \in ExtBooks :
               IterationRaises(workers[w], TargetOf(workers[w], ext))
    /\ workers' = Dies(w)
    /\ UNCHANGED <<threads, stop_worker, holding_weight, total_holding_weight, so,
                   calls, orders, fills, web, registry, pricing, adapter, sizing, balancing>>

\* the worker at pc with the target price of this iteration
Aiming(w, pc, target_price) ==
    [workers EXCEPT ![w].pc = pc, ![w].target = target_price]

\* __update_order, lines 530-536: cancel the current order
UpdateWith(w, me, tp) ==
    /\ Updates(me, tp)
    /\ ~UpdateRaises(me, tp)
    /\ \/ /\ NoFault
          /\ CancelAccepted(me.exch, me.order.id, me.side)
          /\ orders' = Cancelled(me.order.id)
          /\ workers' = Aiming(w, "create", tp.val)
       \/ /\ NoFault
          /\ ~CancelAccepted(me.exch, me.order.id, me.side)
          /\ orders' = orders
          /\ workers' = Aiming(w, "fetch_all", tp.val)
       \/ /\ Fault
          /\ orders' = orders
          /\ workers' = Aiming(w, "fetch_all", tp.val)

\* lines 445-458: the target differs from the order's price
WorkerUpdate(w) ==
    /\ workers[w].pc = "loop"
    /\ ~stop_worker[workers[w].asset]
    /\ \E ext \in ExtBooks : UpdateWith(w, workers[w], TargetOf(workers[w], ext))
    /\ UNCHANGED <<threads, stop_worker, holding_weight, total_holding_weight, so,
                   calls, fills, web, registry, pricing, adapter, sizing, balancing>>

\* the order is gone: order = None, __handle_order_completion comes next
Gone(w, target_price) ==
    [workers EXCEPT ![w].pc = "reconcile", ![w].order = NoOrder,
                    ![w].target = target_price]

\* __refresh_order_status, lines 508-524
RefreshWith(w, me, tp, seen) ==
    /\ tp.err = "none"
    /\ ~Updates(me, tp)
    /\ \/ /\ NoFault
          /\ seen.status = "closed"
          /\ workers' = Gone(w, tp.val)
       \/ /\ NoFault
          /\ seen.status # "closed"
          /\ workers' = [workers EXCEPT ![w].order = seen]
       \/ /\ NoFault      \* OrderNotFound: the exchange has dropped the order
          /\ seen.status = "canceled"
          /\ workers' = Gone(w, tp.val)
       \/ /\ Fault        \* any other exception: the old order is kept
          /\ workers' = workers

\* lines 445-449 and 467: the target equals the order's price
WorkerRefresh(w) ==
    /\ workers[w].pc = "loop"
    /\ ~stop_worker[workers[w].asset]
    /\ workers[w].order # NoOrder
    /\ \E ext \in ExtBooks :
         RefreshWith(w, workers[w], TargetOf(workers[w], ext),
                     orders[workers[w].order.id])
    /\ UNCHANGED <<threads, stop_worker, holding_weight, total_holding_weight, so,
                   calls, orders, fills, web, registry, pricing, adapter, sizing, balancing>>

\* the open orders of the worker's side
OwnSide(me) ==
    SetToSeq({i \in OpenIds(me.exch, me.asset) : orders[i].side = me.side})

\* __update_order, lines 538-541: fetch_open_orders outside any try
WorkerFetchAll(w) ==
    /\ workers[w].pc = "fetch_all"
    /\ \/ /\ NoFault
          /\ workers' = [workers EXCEPT
                 ![w].pending = OwnSide(workers[w]),
                 ![w].order = NoOrder,
                 ![w].pc = IF OwnSide(workers[w]) = << >> THEN "reconcile"
                           ELSE "cancel_all"]
       \/ /\ Fault
          /\ workers' = Dies(w)
    /\ UNCHANGED <<threads, stop_worker, holding_weight, total_holding_weight, so,
                   calls, orders, fills, web, registry, pricing, adapter, sizing, balancing>>

\* the loop of lines 542-552 moves to the next order
NextPending(w) ==
    [workers EXCEPT ![w].pending = Tail(@),
                    ![w].pc = IF Tail(workers[w].pending) = << >> THEN "reconcile"
                              ELSE "cancel_all"]

\* __update_order, lines 542-552: cancel every open order of the side
WorkerCancelAll(w) ==
    /\ workers[w].pc = "cancel_all"
    /\ \/ /\ NoFault
          /\ orders' = IF CancelAccepted(workers[w].exch, Head(workers[w].pending),
                                         workers[w].side)
                       THEN Cancelled(Head(workers[w].pending)) ELSE orders
       \/ /\ Fault
          /\ orders' = orders
       \/ /\ NoFault    \* the retry of the worker's failed cancel fails with it
          /\ orders[Head(workers[w].pending)].owner = w
          /\ orders' = orders
    /\ workers' = NextPending(w)
    /\ UNCHANGED <<threads, stop_worker, holding_weight, total_holding_weight, so,
                   calls, fills, web, registry, pricing, adapter, sizing, balancing>>

\* line 455: the amount of the replacement
target_amount(me) ==
    IF me.side = "buy"
    THEN RDiv(RMul(me.remaining, RInt(me.order.price)), RInt(me.target))
    ELSE me.remaining

\* the replacement was not created: order = None
NotCreated(w, note) ==
    [workers EXCEPT ![w].pc = "reconcile", ![w].order = NoOrder,
                    ![w].notes = @ \cup {note}]

\* the worker goes on with the replacement
Replaced(w, ord) ==
    [workers EXCEPT ![w].pc = "loop", ![w].order = ord, ![w].target = 0]

\* __update_order, lines 554-563: create the replacement
CreateWith(w, price, amount) ==
    \/ /\ NoFault
       /\ CreateAccepted(price, amount)
       /\ orders' = Append(orders, NewOrder(w, price, amount))
       /\ workers' = Replaced(w, NewOrder(w, price, amount))
    \/ /\ NoFault
       /\ ~CreateAccepted(price, amount)
       /\ orders' = orders
       /\ workers' = NotCreated(w, "update_failed")
    \/ /\ Fault
       /\ orders' = orders
       /\ workers' = NotCreated(w, "update_failed")

WorkerCreate(w) ==
    /\ workers[w].pc = "create"
    /\ CreateWith(w, workers[w].target, target_amount(workers[w]))
    /\ UNCHANGED <<threads, stop_worker, holding_weight, total_holding_weight, so,
                   calls, fills, web, registry, pricing, adapter, sizing, balancing>>

\* a minimum test that looks at the amount alone
below_min_amount(e, remaining, cost) ==
    /\ ~Falsy(get_min_trade_amount(e).min_amount)
    /\ RLt(remaining, get_min_trade_amount(e).min_amount)

\* the minimum test of __get_remaining_amount (lines 592 and 598)
below_minimum(e, remaining, cost) ==
    \/ /\ ~Falsy(get_min_trade_amount(e).min_amount)
       /\ RLt(remaining, get_min_trade_amount(e).min_amount)
    \/ /\ ~Falsy(get_min_trade_amount(e).min_cost)
       /\ RLt(cost, get_min_trade_amount(e).min_cost)

\* return 0 under the minimum, else remaining
RemainingOr0(e, remaining, cost) ==
    IF below_minimum(e, remaining, cost) THEN Priced(RZero) ELSE Priced(remaining)

\* lines 589-593: remaining = base_balance / float(target_price)
RemainingBuy(me, avail) ==
    IF avail.err # "none" THEN avail
    ELSE IF me.target = 0 THEN Raised("ZeroDivisionError")
    ELSE RemainingOr0(me.exch,
                      RDiv(RMul(avail.val, RSub(ROne, fee)), RInt(me.target)),
                      RMul(avail.val, RSub(ROne, fee)))

\* __get_remaining_amount on the balances s: [err, val]
get_remaining_amount(me, s, hw, total) ==
    IF me.side = "buy"
    THEN RemainingBuy(me, get_available_base_balance_for_asset(
                              me.exch, me.asset, hw, total, RInt(s.base)))
    ELSE RemainingOr0(me.exch, RInt(Bal(s, me.asset)),
                      RMul(RInt(Bal(s, me.asset)), RInt(me.target)))

\* the loop goes on without an order: create_order has failed
Orderless(w, remaining) ==
    [workers EXCEPT ![w].pc = "loop", ![w].order = NoOrder,
                    ![w].remaining = remaining, ![w].target = 0,
                    ![w].notes = @ \cup {"create_failed"}]

\* the loop goes on with the new order and the new remaining amount
Resumed(w, ord, remaining) ==
    [workers EXCEPT ![w].pc = "loop", ![w].order = ord, ![w].remaining = remaining,
                    ![w].target = 0]

\* the holding weight of asset a that a recomputation on the balances s
\* gives has reached 0.99 of the allocation
reached_target(e, a, s) ==
    /\ a \in universe(e)
    /\ RGe(compute_holding_weight(e, s).holding_weight[a],
           RMul(allocation(e), NearTarget))

\* the workers ws, with what the balances read by worker w's reconcile say
\* about the target
Seen(ws, w, at_target) == [ws EXCEPT ![w].at_target = at_target]

\* __handle_order_completion (lines 565-582) and what the loop does with its
\* result (lines 460-474, 478-483)
ReconcileWith(w, me, rem, at_target) ==
    \/ /\ NoFault
       /\ rem.err # "none"
       /\ workers' = Seen(Dies(w), w, at_target)
       /\ UNCHANGED <<threads, orders>>
    \/ /\ NoFault
       /\ rem.err = "none"
       /\ IsZero(rem.val)
       /\ workers' = Seen(Exits(w, {"fully_matched"}), w, at_target)
       /\ clear_handle(w)
       /\ UNCHANGED orders
    \/ /\ NoFault
       /\ rem.err = "none"
       /\ ~IsZero(rem.val)
       /\ IF CreateAccepted(me.target, rem.val)
          THEN /\ orders' = Append(orders, NewOrder(w, me.target, rem.val))
               /\ workers' = Seen(Resumed(w, NewOrder(w, me.target, rem.val), rem.val),
                                   w, at_target)
          ELSE /\ orders' = orders
               /\ workers' = Seen(Orderless(w, rem.val), w, at_target)
       /\ UNCHANGED threads
    \/ /\ Fault      \* create_order raises
       /\ rem.err = "none"
       /\ ~IsZero(rem.val)
       /\ workers' = Seen(Orderless(w, rem.val), w, at_target)
       /\ UNCHANGED <<threads, orders>>

WorkerReconcile(w) ==
    /\ workers[w].pc = "reconcile"
    /\ \E s \in Snapshots(workers[w].exch) :
         ReconcileWith(w, workers[w],
                       get_remaining_amount(workers[w], s, holding_weight,
                                            total_holding_weight[workers[w].exch]),
                       reached_target(workers[w].exch, workers[w].asset, s))
    /\ UNCHANGED <<stop_worker, holding_weight, total_holding_weight, so, calls, fills, web, registry, pricing, adapter, sizing, balancing>>

\* get_balance of __get_remaining_amount raises, outside any try
WorkerReconcileRaises(w) ==
    /\ workers[w].pc = "reconcile"
    /\ Fault
    /\ workers' = Seen(Dies(w), w, FALSE)
    /\ UNCHANGED <<threads, stop_worker, holding_weight, total_holding_weight, so,
                   calls, orders, fills, web, registry, pricing, adapter, sizing, balancing>>

(***************************************************************************)
(* The market.                                                             *)
(***************************************************************************)
\* a resting order is matched in full
MarketFill(id) ==
    /\ fills < MaxFills
    /\ id \in 1..Len(orders)
    /\ orders[id].status = "open"
    /\ orders' = [orders EXCEPT ![id].status = "closed", ![id].remaining = RZero]
    /\ fills' = fills + 1
    /\ UNCHANGED <<threads, stop_worker, holding_weight, total_holding_weight, so,
                   calls, workers, faults, web, registry, pricing, adapter, sizing, balancing>>

\* a resting order is matched in part: half of what remained stays open
MarketPartialFill(id) ==
    /\ fills < MaxFills
    /\ id \in 1..Len(orders)
    /\ orders[id].status = "open"
    /\ orders' = [orders EXCEPT ![id].remaining = RDiv(@, RInt(2))]
    /\ fills' = fills + 1
    /\ UNCHANGED <<threads, stop_worker, holding_weight, total_holding_weight, so,
                   calls, workers, faults, web, registry, pricing, adapter, sizing, balancing>>

(***************************************************************************)
(* The webhook: endpoints.py, lines 31-70.                                 *)
(***************************************************************************)
\* requests served by the handler
MaxRequests == 2

\* request bodies: text that is no JSON, a JSON scalar, a JSON array, and
\* JSON objects with or without the fields send_order, secret, line_token
Bodies ==
    {[kind |-> k, send_order |-> "absent", secret |-> "absent", line_token |-> "absent"] : k \in {"text", "scalar", "array"}}
    \cup {[kind |-> "object", send_order |-> s, secret |-> x, line_token |-> l] : s \in {"absent", "false", "true"}, x \in {"absent", "s1", "s2"}, l \in {"absent", "t1"}}

\* a parse that takes any text
always_readable(body) == TRUE

\* lines 34-36: request.json() returns and the result has a copy() method
readable(body) == body.kind \in {"object", "array"}

\* send_line_notify(text, token) has posted the message
Notified(w, text, data, token) ==
    [w EXCEPT !.channel = Append(@, [req |-> w.served, text |-> text, data |-> data,
                                     token |-> IF token = "absent" THEN "env" ELSE token])]

\* the handler returns the response, or raises and the server answers 500
Answered(w, status) == [w EXCEPT !.pc = "idle", !.status = status, !.served = @ + 1]

\* lines 33-48: parse the body, strip the secret and the token, notify
WebhookParse(body) ==
    /\ web.pc = "idle"
    /\ web.served < MaxRequests
    /\ \E delivered \in BOOLEAN :
         web' = IF readable(body) /\ delivered
                THEN Notified([web EXCEPT !.pc = "order", !.body = body, !.undelivered = FALSE],
                              "payload", [body EXCEPT !.secret = "absent", !.line_token = "absent"],
                              body.line_token)
                ELSE [web EXCEPT !.pc = "raw", !.body = body, !.undelivered = readable(body)]
    /\ UNCHANGED <<trading, registry, pricing, adapter, sizing, balancing>>

\* lines 49-53: the except branch posts the raw body and answers 200
WebhookRaw ==
    /\ web.pc = "raw"
    /\ \E delivered \in BOOLEAN :
         web' = IF delivered THEN Answered(Notified(web, "raw body", web.body, "absent"), 200)
                ELSE Answered([web EXCEPT !.undelivered = TRUE], 500)
    /\ UNCHANGED <<trading, registry, pricing, adapter, sizing, balancing>>

\* a check that asks for a secret and does not compare it
secret_without_compare(secret, data) ==
    IF secret = "" THEN ""
    ELSE IF data.secret = "absent" THEN "Secret not provided"
    ELSE ""

\* lines 58-67: the message of the 401 answer, "" when the request passes
secret_error(secret, data) ==
    IF secret = "" THEN ""
    ELSE IF data.secret = "absent" THEN "Secret not provided"
    ELSE IF data.secret # secret THEN "Incorrect secret"
    ELSE ""

\* lines 68-70: send_order returns and the handler answers 200, or it raises
\* and the exception leaves the handler
webhook_response(outcome) == IF outcome = "raised" THEN 500 ELSE 200

\* lines 57-70: check the secret and give the order to the MarketHandler
WebhookOrder ==
    /\ web.pc = "order"
    /\ \/ /\ web.body.send_order = "absent"   \* data['send_order'] raises
          /\ web' = Answered(web, 500)
       \/ /\ web.body.send_order = "false"
          /\ web' = Answered(web, 200)
       \/ /\ web.body.send_order = "true"
          /\ secret_error(web.env_secret, web.body) # ""
          /\ \E delivered \in BOOLEAN :
               web' = IF delivered
                      THEN Answered(Notified(web, secret_error(web.env_secret, web.body),
                                             web.body, "absent"), 401)
                      ELSE Answered([web EXCEPT !.undelivered = TRUE], 500)
       \/ /\ web.body.send_order = "true"
          /\ secret_error(web.env_secret, web.body) = ""
          /\ \E outcome \in {"returned", "raised"} :
               web' = Answered([web EXCEPT !.dispatched =
                                    Append(@, [req |-> web.served, data |-> web.body])],
                               webhook_response(outcome))
    /\ UNCHANGED <<trading, registry, pricing, adapter, sizing, balancing>>

(***************************************************************************)
(* The pricing functions called on their own (limit_order_calculation.py   *)
(* and the helpers of crypto_portfolio.py, lines 56-101).                  *)
(***************************************************************************)
\* calls of the pricing functions in one run
MaxPriceCalls == 2
\* orders the exchange takes from the worker of a single signal
MaxLoopOrders == 3

\* order books: those of the market, a thin top over a deep second level, a
\* book whose weighted averages fall on the tick grid, the book of
\* tests/test_limit_order_calculation.py (prices in ticks of 0.01 above
\* 42395.00, quantities in units of 0.00001; the weighted average moves
\* with the prices and does not depend on the unit of the quantities) and a
\* book of one level a side
PriceBooks ==
    ExtBooks \cup
    { [bids |-> << <<10, <<1, 1>> >>, <<5, <<100, 1>> >> >>,
       asks |-> << <<12, <<1, 1>> >>, <<20, <<100, 1>> >> >>],
      [bids |-> << <<10, <<1, 1>> >>, <<8, <<2, 1>> >> >>,
       asks |-> << <<12, <<1, 1>> >>, <<14, <<2, 1>> >> >>],
      [bids |-> << <<58, <<94637, 1>> >>, <<54, <<12812, 1>> >>, <<50, <<17385, 1>> >>,
                   <<42, <<98, 1>> >>, <<30, <<26086, 1>> >> >>,
       asks |-> << <<59, <<1690171, 1>> >>, <<60, <<23, 1>> >>, <<63, <<709, 1>> >>,
                   <<88, <<54343, 1>> >>, <<89, <<146666, 1>> >> >>],
      [bids |-> << <<1000, <<1, 1>> >> >>, asks |-> << <<1010, <<1, 1>> >> >>],
      [bids |-> << <<10, <<100, 1>> >>, <<9, <<1, 1>> >>, <<8, <<50, 1>> >> >>,
       asks |-> << <<12, <<100, 1>> >>, <<13, <<1, 1>> >>, <<14, <<50, 1>> >> >>],
      [bids |-> << <<10, <<1, 10>> >> >>, asks |-> << <<12, <<1, 10>> >> >>] }

\* an order of the account resting at price
Resting(side, price, remaining) ==
    [NoOrder EXCEPT !.id = 1, !.side = side, !.price = price, !.amount = remaining,
                    !.remaining = remaining, !.status = "open"]

\* the current orders a call can be given on a book: none, a buy order that
\* is the whole best bid, or half of it, or rests above it, a sell order
\* that is the whole best ask
CurrentOrders(order_book) ==
    {NoOrder}
    \cup (IF order_book.bids = << >> THEN {}
          ELSE { Resting("buy", order_book.bids[1][1], order_book.bids[1][2]),
                 Resting("buy", order_book.bids[1][1],
                         RMul(order_book.bids[1][2], <<1, 2>>)),
                 Resting("buy", order_book.bids[1][1] + 1, ROne) })
    \cup (IF order_book.asks = << >> THEN {}
          ELSE { Resting("sell", order_book.asks[1][1], order_book.asks[1][2]) })

\* the base amount of a first buy order and the quote amount of a first sell
\* order, as send_order passes them to the worker
InitialBase == RInt(2000)
InitialQuote == RInt(20)

\* one call of calculate_limit_buy_price, calculate_limit_sell_price,
\* calculate_target_price and the two initial prices on the same arguments
PriceCall(order_book, strategy, current_order) ==
    /\ Len(pricing) < MaxPriceCalls
    /\ pricing' = Append(pricing,
           [order_book |-> order_book, strategy |-> strategy,
            current_order |-> current_order,
            buy |-> calculate_limit_buy_price(order_book, strategy, current_order),
            sell |-> calculate_limit_sell_price(order_book, strategy, current_order),
            target |-> calculate_target_price(order_book, current_order.remaining,
                                              current_order, strategy),
            initial_buy |-> calculate_initial_buy_price(order_book, InitialBase, strategy),
            initial_sell |-> calculate_initial_sell_price(order_book, InitialQuote, strategy)])
    /\ UNCHANGED <<trading, web, registry, adapter, sizing, balancing>>

(***************************************************************************)
(* The sizing functions on one snapshot of a portfolio of three assets     *)
(* (crypto_portfolio.py, lines 260-297).                                   *)
(***************************************************************************)
\* sizing computations in one run
MaxSizeCalls == 1

\* the portfolio whose universe has three assets
Wide == "KUCOIN"

\* fetch_balance of that portfolio: the free base balance and the holdings
SizeSnapshots ==
    {[base |-> b, BTC |-> x, ETH |-> y, SOL |-> z] :
        b \in {0, 100, 200, 1000}, x \in {0, 10, 20, 60}, y \in {0, 10, 20, 60}, z \in {0, 10, 20, 60}}

\* get_available_base_balance_for_asset(asset) for every asset of the
\* universe, on the weights c that compute_holding_weight has stored
AvailableOn(s, c) ==
    [a \in universe(Wide) |->
        get_available_base_balance_for_asset(Wide, a, c.holding_weight,
                                             c.total_holding_weight, RInt(s.base))]

\* compute_holding_weight on the balances s, then the available base balance
\* of every asset on the same balances
SizeCall(s) ==
    /\ Len(sizing) < MaxSizeCalls
    /\ sizing' = Append(sizing,
           [s |-> s, weights |-> compute_holding_weight(Wide, s),
            available |-> AvailableOn(s, compute_holding_weight(Wide, s))])
    /\ UNCHANGED <<trading, web, registry, pricing, adapter, balancing>>

(***************************************************************************)
(* The balance endpoint: market_handler.py, lines 19-126.                  *)
(***************************************************************************)
\* get_balance calls served
MaxBalanceCalls == 1

\* MarketHandler.exchange_list, line 22
exchange_list == <<"BINANCE", "KUCOIN", "BITKUB">>

\* config[e]['base_asset'] of config.json
base_asset(e) == IF e = "BITKUB" THEN "THB" ELSE "USDT"

\* a test that takes one of the two credentials for both
has_either_credential(api_key, api_secret) == api_key # "" \/ api_secret # ""

\* line 45: neither credential is the empty string; os.getenv gives None
\* ("<unset>") for a variable the environment does not have, which passes
has_credentials(api_key, api_secret) == api_key # "" /\ api_secret # ""

\* MarketHandler.__init__ (lines 26-69) on the exchanges named in config.json
\* and the credentials of the environment; portfolio[e] is FALSE for None
MarketHandlerInit(config, api_key, api_secret) ==
    /\ ~registry.built
    /\ registry' =
         [built |-> TRUE, api_key |-> api_key, api_secret |-> api_secret,
          exchange_list |-> SelectSeq(exchange_list, LAMBDA e : e \in config),
          portfolio |-> [e \in config |-> has_credentials(api_key[e], api_secret[e])],
          calls |-> 0,
          outcome |-> [e \in config |-> [tag |-> "uncalled", total |-> 0]],
          balance |-> [total |-> [b \in {"USDT", "THB"} |-> -1],
                       exchanges |-> [e \in {"BINANCE", "KUCOIN", "BITKUB"} |->
                                         [tag |-> "absent", total |-> 0]]]]
    /\ UNCHANGED <<trading, web, pricing, adapter, sizing, balancing>>

\* a loop that ends at the first exchange whose balance cannot be read
balance_entry_or_stop(result, mkt, portfolio, outcome) ==
    IF ~portfolio[mkt]
    THEN [result EXCEPT !.exchanges[mkt] = [tag |-> "Cannot connect", total |-> 0]]
    ELSE IF outcome[mkt].tag = "raises" THEN result
    ELSE [exchanges |-> [result.exchanges EXCEPT
                            ![mkt] = [tag |-> "balance", total |-> outcome[mkt].total]],
          total |-> [result.total EXCEPT ![base_asset(mkt)] =
                        (IF @ = -1 THEN 0 ELSE @) + outcome[mkt].total]]

\* get_balance, lines 111-123: one pass of the loop; outcome[mkt] is what
\* get_portfolio_balance does, its total in hundredths (the function rounds
\* it to two places); -1 stands for a base asset total does not have
balance_entry(result, mkt, portfolio, outcome) ==
    IF ~portfolio[mkt]
    THEN [result EXCEPT !.exchanges[mkt] = [tag |-> "Cannot connect", total |-> 0]]
    ELSE IF outcome[mkt].tag = "raises"
    THEN [result EXCEPT !.exchanges[mkt] = [tag |-> "Error", total |-> 0]]
    ELSE [exchanges |-> [result.exchanges EXCEPT
                            ![mkt] = [tag |-> "balance", total |-> outcome[mkt].total]],
          total |-> [result.total EXCEPT ![base_asset(mkt)] =
                        (IF @ = -1 THEN 0 ELSE @) + outcome[mkt].total]]

\* get_balance, lines 108-126: the loop over exchange_list; rounding the
\* totals to two places (line 124) leaves sums of hundredths as they are
RECURSIVE get_balance(_, _, _, _)
get_balance(mkts, portfolio, outcome, result) ==
    IF mkts = << >> THEN result
    ELSE get_balance(Tail(mkts), portfolio, outcome,
                     balance_entry(result, Head(mkts), portfolio, outcome))

\* GET /balance: get_portfolio_balance of each portfolio raises or returns
GetBalance ==
    /\ registry.built
    /\ registry.calls < MaxBalanceCalls
    /\ \E outcome \in [DOMAIN registry.portfolio ->
                         {[tag |-> "uncalled", total |-> 0], [tag |-> "raises", total |-> 0],
                          [tag |-> "returns", total |-> 0], [tag |-> "returns", total |-> 150]}] :
         /\ \A e \in DOMAIN registry.portfolio :
                /\ outcome[e].tag = "uncalled" <=> ~registry.portfolio[e]
                \* fetch_balance is a signed request: without a key and a
                \* secret to sign it with, it raises
                /\ "<unset>" \in {registry.api_key[e], registry.api_secret[e]} =>
                       outcome[e].tag \in {"uncalled", "raises"}
         /\ registry' = [registry EXCEPT
                !.calls = @ + 1,
                !.outcome = outcome,
                !.balance = get_balance(registry.exchange_list, registry.portfolio, outcome,
                                        [total |-> [b \in {"USDT", "THB"} |-> -1],
                                         exchanges |-> [e \in {"BINANCE", "KUCOIN", "BITKUB"} |->
                                                           [tag |-> "absent", total |-> 0]]])]
    /\ UNCHANGED <<trading, web, pricing, adapter, sizing, balancing>>

(***************************************************************************)
(* compute_holding_weight as get_portfolio_balance runs it, statement by   *)
(* statement (crypto_portfolio.py, lines 152-156 and 260-279): GET         *)
(* /balance is a plain def, which FastAPI runs on a thread of its pool     *)
(* while the workers run on theirs.                                        *)
(***************************************************************************)
\* recomputations of the balance endpoint in one run
MaxRecomputes == 1

\* config[exchange]['universe'], in the order of the list
universe_list(e) == IF e = "BINANCE" THEN <<"BTC", "ETH">> ELSE <<"BTC">>

\* lines 155 and 262-276: with more than one asset in the universe the
\* balances and prices are read, the market values summed, and the total
\* holding weight set to 0
BalanceComputeStart(e, s) ==
    /\ balancing.pc = "idle"
    /\ balancing.calls < MaxRecomputes
    /\ Len(universe_list(e)) > 1
    /\ balancing' = [pc |-> "loop", exch |-> e, s |-> s, todo |-> universe_list(e),
                     calls |-> balancing.calls + 1]
    /\ total_holding_weight' = [total_holding_weight EXCEPT ![e] = RZero]
    /\ UNCHANGED <<threads, stop_worker, holding_weight, so, calls, workers, orders,
                   faults, fills, web, registry, pricing, adapter, sizing>>

\* lines 278-279: the weight w of asset a is stored and added to the total
WeightStored(e, a, w) ==
    /\ holding_weight' = [holding_weight EXCEPT ![a] = w]
    /\ total_holding_weight' = [total_holding_weight EXCEPT ![e] = RAdd(@, w)]

\* lines 277-279: one pass of the loop over the market values
BalanceComputeStep ==
    /\ balancing.pc = "loop"
    /\ WeightStored(balancing.exch, Head(balancing.todo),
                    compute_holding_weight(balancing.exch, balancing.s)
                        .holding_weight[Head(balancing.todo)])
    /\ balancing' = IF Len(balancing.todo) = 1 THEN NotBalancing(balancing.calls)
                    ELSE [balancing EXCEPT !.todo = Tail(@)]
    /\ UNCHANGED <<threads, stop_worker, so, calls, workers, orders, faults, fills,
                   web, registry, pricing, adapter, sizing>>

(***************************************************************************)
(* The system.                                                             *)
(***************************************************************************)
SendOrderStep ==
    \/ \E e \in Exchanges, a \in Assets, side \in Sides : SendOrderStart(e, a, side)
    \/ SendOrderWait
    \/ SendOrderSweep
    \/ SendOrderReject
    \/ SendOrderBuy
    \/ SendOrderSell
    \/ SendOrderSizeFault

WorkerStep(w) ==
    \/ WorkerPlace(w)
    \/ WorkerPlaceRaises(w)
    \/ WorkerStop(w)
    \/ WorkerIterateRaises(w)
    \/ WorkerUpdate(w)
    \/ WorkerRefresh(w)
    \/ WorkerFetchAll(w)
    \/ WorkerCancelAll(w)
    \/ WorkerCreate(w)
    \/ WorkerReconcile(w)
    \/ WorkerReconcileRaises(w)

Next ==
    \/ SendOrderStep
    \/ \E w \in WorkerIds : WorkerStep(w)
    \/ \E id \in 1..adapter.capacity : MarketFill(id)

Spec == Init /\ [][Next]_vars

\* the webhook handler alone, under each setting of ORDER_EXECUTION_SECRET
\* (unset, empty, set)
WebhookInit ==
    /\ TradingInit
    /\ web \in {Handler(secret) : secret \in {"<unset>", "", "s1"}}
    /\ registry = [built |-> FALSE]
    /\ pricing = << >>
    /\ sizing = << >>
    /\ balancing = NotBalancing(0)
    /\ adapter = Adapters(MaxOrders)

WebhookNext ==
    \/ \E body \in Bodies : WebhookParse(body)
    \/ WebhookRaw
    \/ WebhookOrder

WebhookSpec == WebhookInit /\ [][WebhookNext]_vars

\* the balance endpoint alone, under each config.json and environment
BalanceNext ==
    \/ \E config \in SUBSET {"BINANCE", "KUCOIN", "BITKUB"} :
         \E api_key \in [config -> {"<unset>", "", "k"}], api_secret \in [config -> {"<unset>", "", "s"}] :
            MarketHandlerInit(config, api_key, api_secret)
    \/ GetBalance

BalanceSpec == Init /\ [][BalanceNext]_vars

\* the pricing functions on every book, strategy and current order
PriceNext ==
    \E order_book \in PriceBooks, strategy \in Strategies :
        \E current_order \in CurrentOrders(order_book) :
            PriceCall(order_book, strategy, current_order)

PriceSpec == Init /\ [][PriceNext]_vars

\* the sizing functions on every snapshot
SizeNext == \E s \in SizeSnapshots : SizeCall(s)

SizeSpec == Init /\ [][SizeNext]_vars

\* BINANCE's adapter is one that cannot fetch an order
MarketInit ==
    /\ TradingInit
    /\ web = Handler("")
    /\ registry = [built |-> FALSE]
    /\ pricing = << >>
    /\ sizing = << >>
    /\ balancing = NotBalancing(0)
    /\ adapter = [Adapters(MaxOrders) EXCEPT !.fetchOrder["BINANCE"] = FALSE]

MarketNext ==
    \/ Next
    \/ SendOrderMarket

MarketSpec == MarketInit /\ [][MarketNext]_vars

\* one signal and the worker it launches, on exchanges that take
\* MaxLoopOrders orders and fill them in part or in full
LoopInit ==
    /\ TradingInit
    /\ web = Handler("")
    /\ registry = [built |-> FALSE]
    /\ pricing = << >>
    /\ sizing = << >>
    /\ balancing = NotBalancing(0)
    /\ adapter = Adapters(MaxLoopOrders)

LoopWorkerStep(w) ==
    \/ WorkerPlace(w)
    \/ WorkerPlaceRaises(w)
    \/ WorkerIterateRaises(w)
    \/ WorkerUpdate(w)
    \/ WorkerRefresh(w)
    \/ WorkerFetchAll(w)
    \/ WorkerCancelAll(w)
    \/ WorkerCreate(w)
    \/ WorkerReconcile(w)
    \/ WorkerReconcileRaises(w)

LoopNext ==
    \/ calls = 0 /\ \E e \in Exchanges, a \in Assets, side \in Sides : SendOrderStart(e, a, side)
    \/ SendOrderSweep
    \/ SendOrderReject
    \/ SendOrderBuy
    \/ SendOrderSell
    \/ SendOrderSizeFault
    \/ \E w \in WorkerIds : LoopWorkerStep(w)
    \/ \E id \in 1..adapter.capacity : MarketFill(id)
    \/ \E id \in 1..adapter.capacity : MarketPartialFill(id)

LoopSpec == LoopInit /\ [][LoopNext]_vars

\* the same on a BINANCE market with a higher minimum cost
GateInit ==
    /\ TradingInit
    /\ web = Handler("")
    /\ registry = [built |-> FALSE]
    /\ pricing = << >>
    /\ sizing = << >>
    /\ balancing = NotBalancing(0)
    /\ adapter = [Adapters(MaxLoopOrders) EXCEPT
                     !.limits["BINANCE"].min_cost = RInt(HighMinCostTicks)]

GateSpec == GateInit /\ [][LoopNext]_vars

\* one signal, its worker, and the balance endpoint called meanwhile
RaceNext ==
    \/ LoopNext
    \/ \E e \in Exchanges : \E s \in Snapshots(e) : BalanceComputeStart(e, s)
    \/ BalanceComputeStep

RaceSpec == LoopInit /\ [][RaceNext]_vars

(***************************************************************************)
(* Properties.                                                             *)
(***************************************************************************)
\* the worker's thread is alive
Running(w) == workers[w].pc \notin {"idle", "dead", "exited"}

\* the orders worker w has submitted
OrdersOf(w) == {i \in 1..Len(orders) : orders[i].owner = w}

\* send_order has returned to the webhook handler without raising
ReturnedNormally ==
    so.pc = "idle" /\ so.result \in {"launched", "below_min", "rejected"}

\* C1: in every reachable state at most one limit-order worker is running
\* for a given (exchange, asset) pair.
C1_OneWorkerPerPair ==
    \A w1, w2 \in WorkerIds :
        (/\ Running(w1)
         /\ Running(w2)
         /\ workers[w1].exch = workers[w2].exch
         /\ workers[w1].asset = workers[w2].asset) => w1 = w2

\* a second worker of a pair runs after the call that launched it has waited
\* for the first one to exit
C1_SecondWorkerAfterFirst ==
    \E w1, w2 \in WorkerIds :
        /\ w1 # w2
        /\ workers[w1].exch = workers[w2].exch
        /\ workers[w1].asset = workers[w2].asset
        /\ workers[w1].pc = "exited"
        /\ Running(w2)
        /\ so.id = w2
        /\ so.waited = w1

\* C2: a SendOrder on exchange X never sets the stop flag of, or waits on,
\* the worker of another exchange Y: the worker whose handle it found set
\* belongs to the call's own exchange.
C2_StopsOwnExchangeOnly ==
    so.waited # 0 => workers[so.waited].exch = so.exch

\* C3: when SendOrder returns, every order that was open on ASSET/BASE when
\* the call started is no longer open (here: with every cancel request of
\* the sweep answered by the exchange).
C3_PriorOrdersNotOpen ==
    (ReturnedNormally /\ ~so.netfail) =>
        \A id \in so.open0 : orders[id].status # "open"

\* the call found the handle set by a worker of the same payload
SamePayloadAsRunning ==
    /\ so.waited # 0
    /\ workers[so.waited].exch = so.exch
    /\ workers[so.waited].asset = so.asset
    /\ workers[so.waited].side = so.side

\* C4: two SendOrder calls with the same payload, the second issued while
\* the first's worker is running, leave at most one open order on the market.
C4_AtMostOneOpenOrder ==
    (ReturnedNormally /\ SamePayloadAsRunning) =>
        Cardinality(OpenIds(so.exch, so.asset)) <= 1

\* C5: a handle that is not none denotes a worker that is still running.
C5_HandleMeansRunning ==
    \A a \in Assets : threads[a] # 0 => Running(threads[a])

\* C6: SendOrder always leaves the wait for the previous worker: while it
\* is in the wait, the handle is clear or the worker that holds it is still
\* running and will clear it.  (Only the worker's last statement and a later
\* send_limit_order of the waiting caller itself write the handle.)
C6_WaitCanEnd ==
    so.pc = "wait" => (wait_is_over(so.asset) \/ Running(threads[so.asset]))

\* the sized amount is below min_amount and the cost below 1.2 * min_cost; a
\* minimum the market does not define is not reached by any amount
BelowBothMinimums(call) ==
    /\ \/ Falsy(get_min_trade_amount(call.exch).min_amount)
       \/ RLt(call.amount, get_min_trade_amount(call.exch).min_amount)
    /\ \/ Falsy(get_min_trade_amount(call.exch).min_cost)
       \/ RLt(call.cost, RMul(get_min_trade_amount(call.exch).min_cost, CostMargin))

\* C7: if the sized amount is below min_amount and the cost is below 1.2
\* times min_cost, SendOrder launches no worker, submits no order and sends
\* no order notification.
C7_NoLaunchBelowMinimums ==
    (so.sized /\ BelowBothMinimums(so)) =>
        /\ so.result # "launched"
        /\ workers[so.id] = IdleWorker
        /\ OrdersOf(so.id) = {}

\* a buy sized to a positive amount is held back by the gate
C7_PositiveAmountHeldBack ==
    /\ so.sized
    /\ BelowBothMinimums(so)
    /\ so.side = "buy"
    /\ RGt(so.amount, RZero)
    /\ so.result = "below_min"

\* C8: a buy signal for an asset that is not in the universe is rejected: no
\* worker is launched and no order is created for it.
C8_BuyOutsideUniverseRejected ==
    (so.id # 0 /\ so.side = "buy" /\ so.asset \notin universe(so.exch)) =>
        /\ so.result \in {"none", "raised", "rejected"}
        /\ workers[so.id] = IdleWorker
        /\ OrdersOf(so.id) = {}

\* a buy outside the universe has been refused with its notification
C8_RejectedBuy ==
    /\ so.side = "buy"
    /\ so.asset \notin universe(so.exch)
    /\ so.result = "rejected"
    /\ "not_in_universe" \in so.notes

\* C9: a sell signal is accepted for any asset, also one outside the
\* universe: when the amount read from Balance(asset) passes the gate, the
\* sell worker is launched.
C9_SellLaunchedWhenGatePasses ==
    (so.pc = "idle" /\ so.side = "sell" /\ so.sized
        /\ passes_gate(so.exch, so.amount, so.cost)) => so.result = "launched"

\* AvailableBaseFor as the specification states it
AvailableBaseFor(e, asset, hw, total, base_balance) ==
    IF RGt(hw[asset], RMul(allocation(e), NearTarget)) THEN RZero
    ELSE RMul(RMin(ROne, RDiv(RSub(allocation(e), hw[asset]), RSub(ROne, total))),
              base_balance)

\* C10: AvailableBaseFor(asset) returns 0 when holding_weight(asset) > 0.99 *
\* allocation(asset), and otherwise min(1, (allocation - holding) / (1 -
\* total_holding_weight)) * base_balance, for every asset of the universe.
C10_AvailableBaseReturned ==
    (so.side = "buy" /\ so.avail # NoAvail) =>
        /\ so.avail.err = "none"
        /\ so.avail.val = AvailableBaseFor(so.exch, so.asset, holding_weight,
                                           total_holding_weight[so.exch], so.base)

\* the buy call has asked for the available base balance of its asset
AskedAvailable == so.side = "buy" /\ so.avail # NoAvail

\* the asset's holding weight is above 0.99 of its allocation
AboveNearTarget(e, a) == RGt(holding_weight[a], RMul(allocation(e), NearTarget))

\* C11 as stated: whenever holding_weight(A) <= 0.99 * allocation(A),
\* AvailableBaseFor(A) = 0.
C11_ZeroWhenAtMostNearTarget ==
    (AskedAvailable /\ ~AboveNearTarget(so.exch, so.asset)) => so.avail = Priced(RZero)

\* C11 as the code has it: whenever holding_weight(A) > 0.99 *
\* allocation(A), AvailableBaseFor(A) = 0.
C11_ZeroWhenAboveNearTarget ==
    (AskedAvailable /\ AboveNearTarget(so.exch, so.asset)) => so.avail = Priced(RZero)

\* a buy for an asset held above 0.99 of its allocation has been given 0
C11_NearTargetGivenZero ==
    /\ AskedAvailable
    /\ AboveNearTarget(so.exch, so.asset)
    /\ so.avail = Priced(RZero)
    /\ so.result = "below_min"

\* C12: for every asset of the universe and every base balance and holding
\* weights a recomputation produces (a free base balance of 0 included),
\* AvailableBaseFor returns a value v with 0 <= v <= free base balance.
C12_AvailableWithinBaseBalance ==
    AskedAvailable =>
        /\ so.avail.err = "none"
        /\ RGe(so.avail.val, RZero)
        /\ RLe(so.avail.val, so.base)

\* the step in which buy worker w, its order gone, comes out of a reconcile
\* that read balances on which the asset's holding weight has reached the
\* target
ReconciledAtTarget(w) ==
    /\ workers[w].pc = "reconcile"
    /\ workers[w].side = "buy"
    /\ workers'[w].pc # "reconcile"
    /\ workers'[w].at_target

\* C13: a buy worker that finds its order gone while the asset's actual
\* holding weight, recomputed from the current balances, is 0.99 * allocation
\* or more gets zero remaining from the reconcile and exits with the
\* 'fully matched' notification.
C13_AtTargetFullyMatched == [][\A w \in WorkerIds : ReconciledAtTarget(w) => (workers'[w].pc = "exited" /\ "fully_matched" \in workers'[w].notes)]_vars

\* C14: a worker whose exchange calls keep failing gives up after a bounded
\* number of failures, with a notification.  A worker can bound its
\* failures only if each one leaves a trace in its state (an error count, a
\* notification, its end): a step in which a call of a worker fails in
\* transport, and which is no step of send_order and changes no order,
\* changes the state of some worker.
C14_FailureLeavesTrace == [][(faults' = faults + 1 /\ so' = so /\ orders' = orders) => workers' # workers]_vars

\* C15: at every instant at most one order submitted by a worker is open on
\* the exchange, whatever the outcome of the worker's cancel calls.
C15_OneOpenOrderPerWorker == \A w \in WorkerIds : Cardinality({i \in 1..Len(orders) : orders[i].owner = w /\ orders[i].status = "open"}) <= 1

\* the entries of a log of the handler that belong to the request served last
Last(log) == {log[i] : i \in {j \in DOMAIN log : log[j].req = web.served - 1}}

\* the handler has answered a request whose secret is absent or wrong while
\* ORDER_EXECUTION_SECRET is set and not empty
Refused ==
    /\ web.pc = "idle"
    /\ web.served > 0
    /\ web.env_secret \notin {"", "<unset>"}
    /\ web.body.secret # web.env_secret

C17_ExecutionFailureAnswered200 == (so.pc = "idle" /\ so.id > 0) => webhook_response(so.result) = 200

SucceededTotal(b) ==
    IF \A e \in DOMAIN registry.portfolio : registry.outcome[e].tag = "returns" => base_asset(e) # b
    THEN -1
    ELSE (IF "BINANCE" \in DOMAIN registry.portfolio /\ b = "USDT" /\ registry.outcome["BINANCE"].tag = "returns" THEN registry.outcome["BINANCE"].total ELSE 0)
         + (IF "KUCOIN" \in DOMAIN registry.portfolio /\ b = "USDT" /\ registry.outcome["KUCOIN"].tag = "returns" THEN registry.outcome["KUCOIN"].total ELSE 0)
         + (IF "BITKUB" \in DOMAIN registry.portfolio /\ b = "THB" /\ registry.outcome["BITKUB"].tag = "returns" THEN registry.outcome["BITKUB"].total ELSE 0)

C20_MissingCredentialsError ==
    (registry.built /\ registry.calls > 0) =>
        /\ \A e \in DOMAIN registry.portfolio :
              /\ (registry.api_key[e] \in {"<unset>", ""} \/ registry.api_secret[e] \in {"<unset>", ""}) =>
                    registry.balance.exchanges[e].tag = "Error"
              /\ registry.outcome[e].tag = "returns" => registry.balance.exchanges[e].tag = "balance"
        /\ \A b \in {"USDT", "THB"} : registry.balance.total[b] = SucceededTotal(b)

\* C20 as the code has it: the entry of an exchange whose API key or API
\* secret is missing is "Cannot connect" when one of the two is the empty
\* string and "Error" otherwise; the exchanges that were read have their
\* balances and total sums those.
C20_MissingCredentialsCannotConnect ==
    (registry.built /\ registry.calls > 0) =>
        /\ \A e \in DOMAIN registry.portfolio :
              /\ (registry.api_key[e] \in {"<unset>", ""} \/ registry.api_secret[e] \in {"<unset>", ""}) =>
                    registry.balance.exchanges[e].tag =
                        (IF registry.api_key[e] = "" \/ registry.api_secret[e] = ""
                         THEN "Cannot connect" ELSE "Error")
              /\ registry.outcome[e].tag = "returns" => registry.balance.exchanges[e].tag = "balance"
        /\ \A b \in {"USDT", "THB"} : registry.balance.total[b] = SucceededTotal(b)

\* BITKUB has an empty API secret, KUCOIN has none and BINANCE has been read
C20_OneWithoutSecret ==
    /\ registry.built
    /\ registry.calls > 0
    /\ DOMAIN registry.portfolio = {"BINANCE", "KUCOIN", "BITKUB"}
    /\ registry.api_secret["KUCOIN"] = "<unset>"
    /\ registry.balance.exchanges["KUCOIN"].tag = "Error"
    /\ registry.api_key["BITKUB"] = "k"
    /\ registry.api_secret["BITKUB"] = ""
    /\ registry.balance.exchanges["BITKUB"].tag = "Cannot connect"
    /\ registry.balance.exchanges["BINANCE"] = [tag |-> "balance", total |-> 150]
    /\ registry.balance.total["USDT"] = 150

\* C21: with BEST_BID_OR_ASK the buy price is the price of the best bid and
\* the sell price the price of the best ask, on every book that has them and
\* with any current order, and two calls on the same book give the same
\* prices.
C21_BestBidOrAsk ==
    \A i \in DOMAIN pricing :
        pricing[i].strategy = "BEST_BID_OR_ASK" =>
            /\ pricing[i].order_book.bids # << >> =>
                   pricing[i].buy = Priced(pricing[i].order_book.bids[1][1])
            /\ pricing[i].order_book.asks # << >> =>
                   pricing[i].sell = Priced(pricing[i].order_book.asks[1][1])
            /\ \A j \in DOMAIN pricing :
                   (/\ pricing[j].strategy = "BEST_BID_OR_ASK"
                    /\ pricing[j].order_book = pricing[i].order_book) =>
                       /\ pricing[j].buy = pricing[i].buy
                       /\ pricing[j].sell = pricing[i].sell

\* two calls on the same book, one of them with the account's own order at
\* the best bid, have returned the best bid and the best ask
C21_SameBookTwice ==
    /\ Len(pricing) = 2
    /\ pricing[1].strategy = "BEST_BID_OR_ASK"
    /\ pricing[2].strategy = "BEST_BID_OR_ASK"
    /\ pricing[1].order_book = pricing[2].order_book
    /\ pricing[1].current_order = NoOrder
    /\ pricing[2].current_order # NoOrder
    /\ Len(pricing[1].order_book.bids) = 2
    /\ pricing[2].buy = Priced(pricing[1].order_book.bids[1][1])
    /\ pricing[2].sell = Priced(pricing[1].order_book.asks[1][1])

\* C22: on every book and with every current order, a WEIGHTED_AVERAGE buy
\* price is at least the price of the best bid and a WEIGHTED_AVERAGE sell
\* price at most the price of the best ask.
C22_NeverWorseThanTop ==
    \A i \in DOMAIN pricing :
        pricing[i].strategy = "WEIGHTED_AVERAGE" =>
            /\ pricing[i].buy.err = "none" =>
                   pricing[i].buy.val >= pricing[i].order_book.bids[1][1]
            /\ pricing[i].sell.err = "none" =>
                   pricing[i].sell.val <= pricing[i].order_book.asks[1][1]

\* the quotient of the weighted sum by the weighted quantity, before it is
\* rounded to the tick
WeightedQuotient(levels, is_buy, current_order, acc) ==
    RDiv(WithBest(acc, AdjustedBest(levels, acc, is_buy),
                  RDiv(acc.wqs, RInt(SumFrom(orderbook_weights, 2))),
                  RInt(orderbook_weights[1])).wps,
         WithBest(acc, AdjustedBest(levels, acc, is_buy),
                  RDiv(acc.wqs, RInt(SumFrom(orderbook_weights, 2))),
                  RInt(orderbook_weights[1])).wqs)

\* the weighted average of the formula, in ticks: the quotient rounded up to
\* the tick grid for a buy and down for a sell
FormulaPrice(levels, is_buy, current_order) ==
    IF is_buy
    THEN 0 - RFloor(RNeg(RDiv(
             WeightedQuotient(levels, is_buy, current_order,
                 WeightedLoop(levels, 1, current_order,
                              [wi |-> 0, first |-> 0, wps |-> RZero, wqs |-> RZero])),
             RInt(tick_size)))) * tick_size
    ELSE RFloor(RDiv(
             WeightedQuotient(levels, is_buy, current_order,
                 WeightedLoop(levels, 1, current_order,
                              [wi |-> 0, first |-> 0, wps |-> RZero, wqs |-> RZero])),
             RInt(tick_size))) * tick_size

\* C23: the WEIGHTED_AVERAGE price is the quotient of the weighted sum
\* (levels weighted by w1..wk, the synthetic best level by w0) by the weighted
\* quantity, rounded to the tick by ceiling for a buy and by floor for a
\* sell; on the sample book (prices in ticks above 42395.00) it is 59 for a
\* buy and 58 for a sell.
C23_WeightedAverageFormula ==
    \A i \in DOMAIN pricing :
        pricing[i].strategy = "WEIGHTED_AVERAGE" =>
            /\ pricing[i].buy.err = "none" =>
                   pricing[i].buy.val = FormulaPrice(pricing[i].order_book.bids, TRUE,
                                                     pricing[i].current_order)
            /\ pricing[i].sell.err = "none" =>
                   pricing[i].sell.val = FormulaPrice(pricing[i].order_book.asks, FALSE,
                                                      pricing[i].current_order)
            /\ (Len(pricing[i].order_book.bids) = 5 /\ pricing[i].current_order = NoOrder) =>
                   /\ pricing[i].buy = Priced(59)
                   /\ pricing[i].sell = Priced(58)

\* C24: for a buy order resting at the best bid under BEST_BID_OR_ASK, the
\* target price of an iteration is the price of the best bid, and the worker
\* does not update the order (no cancel, no replacement).
C24_TargetIsBestBid ==
    \A i \in DOMAIN pricing :
        (/\ pricing[i].strategy = "BEST_BID_OR_ASK"
         /\ pricing[i].current_order.side = "buy"
         /\ pricing[i].current_order.price = pricing[i].order_book.bids[1][1]) =>
            /\ pricing[i].target = Priced(pricing[i].order_book.bids[1][1])
            /\ ~should_update_order(pricing[i].current_order, pricing[i].target.val)

\* C25: a SendOrder on an adapter without fetchOrder that passes the minimum
\* gate has submitted exactly one market order and has started no worker: the
\* slot of the asset is not set to a worker of the call.
C25_MarketOrderWithoutWorker ==
    (/\ so.pc = "idle"
     /\ so.id > 0
     /\ ~adapter.fetchOrder[so.exch]
     /\ so.sized
     /\ passes_gate(so.exch, so.amount, so.cost)) =>
        /\ so.market = 1
        /\ so.result = "market"
        /\ workers[so.id].pc = "idle"
        /\ threads[so.asset] # so.id

\* a buy on the adapter without fetchOrder has passed the gate and its market
\* order is on the exchange
C25_MarketOrderMatched ==
    /\ so.pc = "idle"
    /\ so.id > 0
    /\ ~adapter.fetchOrder[so.exch]
    /\ so.side = "buy"
    /\ so.sized
    /\ passes_gate(so.exch, so.amount, so.cost)
    /\ "order_matched" \in so.notes
    /\ \E i \in 1..Len(orders) : orders[i].owner = 0 /\ orders[i].exch = so.exch

\* C26: a worker whose limit-order submission has failed (it has sent the
\* 'Failed to create limit order' notification) has terminated, and no
\* worker is in its loop without a current order.
C26_SubmissionFailureEndsWorker ==
    \A w \in WorkerIds :
        /\ "create_failed" \in workers[w].notes => workers[w].pc = "exited"
        /\ workers[w].pc = "loop" => workers[w].order # NoOrder

\* the reconcile of worker w ends it with the 'fully matched' notification
\* and no further order
ReconcileExits(w) ==
    /\ workers'[w].pc = "exited"
    /\ "fully_matched" \in workers'[w].notes
    /\ "fully_matched" \notin workers[w].notes
    /\ orders' = orders

\* the reconcile of worker w submits one order at the target price: the
\* exchange holds it, or has refused it and the worker has said so
ReconcileSubmits(w) ==
    \/ /\ Len(orders') = Len(orders) + 1
       /\ orders'[Len(orders')].owner = w
       /\ orders'[Len(orders')].price = workers[w].target
       /\ orders'[Len(orders')].amount = workers'[w].remaining
       /\ ~below_minimum(workers[w].exch, orders'[Len(orders')].amount, RMul(orders'[Len(orders')].amount, RInt(workers[w].target)))
    \/ /\ orders' = orders
       /\ "create_failed" \in workers'[w].notes
       /\ "fully_matched" \notin workers'[w].notes

\* C27: each reconcile whose exchange calls return either ends the worker
\* with one 'fully matched' notification and no further order, or submits
\* exactly one new limit order at the target price with the recomputed amount
C27_ReconcileExitsOrSubmits ==
    [][\A w \in WorkerIds :
          (workers[w].pc = "reconcile" /\ workers'[w].pc # "reconcile" /\ faults' = faults)
              => (ReconcileExits(w) \/ ReconcileSubmits(w))]_vars

\* worker w, buying, gets a replacement for its order from the exchange
BuyReplacement(w) ==
    /\ workers[w].pc = "create"
    /\ workers[w].side = "buy"
    /\ workers'[w].pc = "loop"
    /\ Len(orders') = Len(orders) + 1

\* C28: for a buy worker each replacement order's amount times price equals
\* the amount times price of the order it replaces, over any sequence of
\* replacements
C28_ReplacementKeepsCost ==
    [][\A w \in WorkerIds :
          BuyReplacement(w) =>
              IsZero(RSub(RMul(workers'[w].order.amount, RInt(workers'[w].order.price)),
                          RMul(workers[w].order.amount, RInt(workers[w].order.price))))]_vars

\* a cycle of worker w that only refreshes its order, which the exchange
\* reports as still open
RefreshedOpen(w) ==
    /\ workers[w].pc = "loop"
    /\ workers'[w].pc = "loop"
    /\ faults' = faults
    /\ orders' = orders
    /\ workers[w].order # NoOrder
    /\ workers'[w].order = orders[workers[w].order.id]
    /\ workers'[w].order.status = "open"

\* C29: after a cycle that only refreshes an order still open, the remaining
\* quantity the worker prices and sizes with is the remaining the exchange
\* reports for that order
C29_RefreshUpdatesRemaining ==
    [][\A w \in WorkerIds :
          RefreshedOpen(w) => workers'[w].remaining = workers'[w].order.remaining]_vars

\* worker w, running with its stop flag set, ends in a step in which no
\* exchange call fails
StoppedWorkerEnds(w) ==
    /\ Running(w)
    /\ stop_worker[workers[w].asset]
    /\ threads[workers[w].asset] = w
    /\ faults' = faults
    /\ workers'[w].pc \in {"dead", "exited"}

\* C30: a running worker whose stop flag is set and whose exchange calls
\* return leaves its loop and clears its handle, so that the SendOrder
\* waiting on it goes on to the cancel sweep; the handle is cleared by the
\* worker alone, so a worker that ends must have cleared it
C30_StoppedWorkerClearsHandle ==
    [][\A w \in WorkerIds :
          StoppedWorkerEnds(w) => threads'[workers[w].asset] = 0]_vars

\* worker w leaves its loop on the stop flag
StopsOnFlag(w) ==
    /\ workers[w].pc = "loop"
    /\ stop_worker[workers[w].asset]
    /\ workers'[w].pc = "exited"

\* worker w has ended on the stop flag: it has returned without the
\* notifications of the other two returns
StoppedOnFlag(w) ==
    /\ workers[w].pc = "exited"
    /\ workers[w].notes \cap {"fully_matched", "create_failed"} = {}

\* order i of a worker that ended on the stop flag is cancelled in this step
StoppedOrderCancelled(i) ==
    /\ orders[i].owner \in WorkerIds
    /\ StoppedOnFlag(orders[i].owner)
    /\ orders[i].status = "open"
    /\ orders'[i].status = "canceled"

\* a SendOrder later than the one that launched order i's worker has come
\* to its cancel sweep
SweepReached(i) == so.id > orders[i].owner /\ so.pc # "wait"

\* C31: a worker that exits on the stop flag cancels no order and sends no
\* notification, and its resting order is not cancelled before the cancel
\* sweep of the next SendOrder
C31_StopLeavesOrderToSweep ==
    [][/\ \A w \in WorkerIds :
             StopsOnFlag(w) => (orders' = orders /\ workers'[w].notes = workers[w].notes)
       /\ \A i \in 1..Len(orders) : StoppedOrderCancelled(i) => SweepReached(i)]_vars

\* a worker has ended on the stop flag and its order rests on the book
C31_StoppedWithRestingOrder ==
    \E w \in WorkerIds :
        /\ StoppedOnFlag(w)
        /\ stop_worker[workers[w].asset]
        /\ \E i \in OrdersOf(w) : orders[i].status = "open"

\* worker w is running on the pair of the SendOrder being served
RunningOnCallPair(w) ==
    Running(w) /\ workers[w].exch = so.exch /\ workers[w].asset = so.asset

\* C32: the create and cancel calls for one (exchange, asset) are serialized:
\* while a SendOrder is in its cancel sweep or sizes the order no worker runs
\* on its pair, and a worker runs on a pair only when every worker launched
\* before it on that pair has ended
C32_CallsSerialized ==
    /\ so.pc \in {"sweep", "size", "market"} => \A w \in WorkerIds : ~RunningOnCallPair(w)
    /\ \A w \in WorkerIds : \A v \in 1..(w - 1) :
           (/\ Running(w)
            /\ workers[v].exch = workers[w].exch
            /\ workers[v].asset = workers[w].asset) => workers[v].pc \in {"exited", "dead"}

\* a SendOrder is in its cancel sweep after the worker it waited for, which
\* had placed an order on the same pair, has exited
C32_SweepAfterWorkerExit ==
    /\ so.pc = "sweep"
    /\ so.waited # 0
    /\ workers[so.waited].pc = "exited"
    /\ workers[so.waited].exch = so.exch
    /\ OrdersOf(so.waited) # {}

\* the first level from i on that is strictly better than price and whose
\* quantity, less the current order's remaining at the order's own price, is
\* at least the threshold, moved by one tick; 0 when there is none
RECURSIVE FirstQualifying(_, _, _, _, _, _)
FirstQualifying(levels, i, price, is_buy, current_order, quantity_threshold) ==
    IF i > Len(levels) THEN 0
    ELSE IF /\ IF is_buy THEN levels[i][1] < price ELSE levels[i][1] > price
            /\ RGe(LevelQuantity(levels[i], current_order), quantity_threshold)
    THEN (IF is_buy THEN levels[i][1] + tick_size ELSE levels[i][1] - tick_size)
    ELSE FirstQualifying(levels, i + 1, price, is_buy, current_order, quantity_threshold)

\* the adjustment of pricing call c as the scan above gives it
QualifyingTarget(c) ==
    IF c.current_order.side = "buy"
    THEN FirstQualifying(c.order_book.bids, 1, c.buy.val, TRUE, c.current_order, RMul(c.current_order.remaining, OnePercent))
    ELSE FirstQualifying(c.order_book.asks, 1, c.sell.val, FALSE, c.current_order, RMul(c.current_order.remaining, OnePercent))

\* C33: adjust_price_for_profit returns the price, moved by one tick, of the
\* first level strictly better than the candidate whose quantity less the
\* current order's remaining at its own price is at least the threshold; a
\* level whose quantity equals the threshold qualifies
C33_FirstQualifyingLevel ==
    \A i \in DOMAIN pricing :
        (pricing[i].current_order # NoOrder /\ pricing[i].target.err = "none") =>
            pricing[i].target.val = QualifyingTarget(pricing[i])

\* amount is a whole number of units of the market's amount precision
AtAmountPrecision(amount) == AmountScale % R(amount[1], amount[2])[2] = 0

\* C34: every order the worker has the exchange create (first placement,
\* replacement, placement after a reconcile) carries a price that is a whole
\* number of ticks and an amount rounded to the market's amount precision
C34_OrdersAtPrecision ==
    \A i \in 1..Len(orders) :
        orders[i].owner \in WorkerIds =>
            /\ orders[i].price % tick_size = 0
            /\ AtAmountPrecision(orders[i].amount)

\* C35: on every order book with at least one level on the relevant side the
\* initial price and the target price the worker computes are strictly
\* positive, also when no level meets the quantity threshold of the
\* profitability adjustment
C35_PricesPositive ==
    \A i \in DOMAIN pricing :
        pricing[i].strategy = limit_order_strategy =>
        /\ pricing[i].order_book.bids # << >> =>
              /\ pricing[i].initial_buy.err = "none" /\ pricing[i].initial_buy.price > 0
              /\ pricing[i].current_order.side = "buy" =>
                     (pricing[i].target.err = "none" /\ pricing[i].target.val > 0)
        /\ pricing[i].order_book.asks # << >> =>
              /\ pricing[i].initial_sell.err = "none" /\ pricing[i].initial_sell.price > 0
              /\ pricing[i].current_order.side = "sell" =>
                     (pricing[i].target.err = "none" /\ pricing[i].target.val > 0)

\* the base currency order i has taken or still holds: its amount at its
\* price, less what was left unmatched when it was cancelled
CommittedBy(i) ==
    RMul(RInt(orders[i].price),
         IF orders[i].status = "canceled" THEN RSub(orders[i].amount, orders[i].remaining)
         ELSE orders[i].amount)

\* the base currency committed to the orders 1..n of worker w
RECURSIVE CommittedUpTo(_, _)
CommittedUpTo(w, n) ==
    IF n = 0 THEN RZero
    ELSE IF orders[n].owner = w THEN RAdd(CommittedUpTo(w, n - 1), CommittedBy(n))
    ELSE CommittedUpTo(w, n - 1)

\* C36: over the whole life of a buy worker the base currency committed to
\* its filled and resting orders never exceeds the budget, available base
\* times (1 - fee), that the SendOrder that launched it computed, so that the
\* worker does not take the asset above its allocation
C36_CommittedWithinBudget ==
    \A w \in WorkerIds :
        (Running(w) /\ workers[w].side = "buy") =>
            RLe(CommittedUpTo(w, Len(orders)), workers[w].amount)

\* the assets of sizing call c held under their allocation
UnderAllocated(c) ==
    {a \in universe(Wide) : RLt(c.weights.holding_weight[a], allocation(Wide))}

\* the available base balances of call c, as a function of the asset
AvailableValues(c) == [a \in universe(Wide) |-> c.available[a].val]

\* C37: on one snapshot of balances and holding weights the available base
\* balances of the under-allocated assets of the universe add up to no more
\* than the free base balance, also when another asset is held above its
\* allocation
C37_AvailableSumWithinBase ==
    \A i \in DOMAIN sizing :
        (\A a \in UnderAllocated(sizing[i]) : sizing[i].available[a].err = "none") =>
            RLe(SumOver(UnderAllocated(sizing[i]), AvailableValues(sizing[i])),
                RInt(sizing[i].s.base))

\* worker w's reconcile reads the holding weights to size a buy
ReconcileReads(w) ==
    /\ workers[w].pc = "reconcile"
    /\ workers[w].side = "buy"
    /\ workers'[w].pc # "reconcile"

\* the weight of asset a and the total of portfolio e are those that the
\* recomputation c stores
StoredBy(e, a, c) ==
    /\ holding_weight[a] = c.holding_weight[a]
    /\ total_holding_weight[e] = c.total_holding_weight

\* the weight of asset a and the total of portfolio e are the result of one
\* completed recomputation of portfolio e
FromOneRecomputation(e, a) ==
    \E s \in Snapshots(e) : StoredBy(e, a, compute_holding_weight(e, s))

\* C38: the holding weight and the total that a worker's reconcile reads come
\* from one completed recomputation of its own portfolio, never from one
\* that a concurrent GetPortfolioBalance or SendOrder is in the middle of
C38_ReconcileReadsOneRecomputation ==
    [][\A w \in WorkerIds :
          ReconcileReads(w) =>
              /\ balancing.pc = "idle"
              /\ FromOneRecomputation(workers[w].exch, workers[w].asset)]_vars

\* the cancel sweep of the SendOrder under way has run, every request
\* delivered
SweepDelivered ==
    /\ so.pc = "sweep"
    /\ so'.pc = "size"
    /\ ~so'.netfail

\* C39: in the cancel sweep of SendOrder the cancel request of each open
\* order carries that order's own side, whatever the side of the signal, so
\* that on BITKUB, whose cancel call needs the side, the resting orders of
\* both sides are cancelled
C39_SweepCancelsBothSides ==
    [][SweepDelivered /\ so.exch = "BITKUB" =>
          \A i \in OpenIds(so.exch, so.asset) :
              /\ sweep_cancel_side(so, orders[i]) = orders[i].side
              /\ orders'[i].status = "canceled"]_vars

\* the amount and the cost of order o are not below the minimums that the
\* market of its exchange defines
MeetsMinimums(o) ==
    /\ ~Falsy(get_min_trade_amount(o.exch).min_amount) =>
           RGe(o.amount, get_min_trade_amount(o.exch).min_amount)
    /\ ~Falsy(get_min_trade_amount(o.exch).min_cost) =>
           RGe(RMul(o.amount, RInt(o.price)), get_min_trade_amount(o.exch).min_cost)

\* C40: every limit order the system submits, at the initial placement and
\* at each placement after a reconcile, has an amount not below the market's
\* min_amount and a cost not below its min_cost, where these are defined
C40_SubmittedMeetMinimums ==
    \A i \in 1..Len(orders) :
        orders[i].owner \in WorkerIds => MeetsMinimums(orders[i])

\* worker w's reconcile places an order
PlacedByReconcile(w) ==
    /\ workers[w].pc = "reconcile"
    /\ Len(orders') = Len(orders) + 1
    /\ orders'[Len(orders')].owner = w

\* C40, amended: every limit order submitted after a reconcile has an amount
\* not below the market's min_amount and a cost not below its min_cost, where
\* these are defined; the initial placement has passed the gate of SendOrder,
\* which needs only one of the two
C40_ReconciledMeetMinimums ==
    [][\A w \in WorkerIds :
          PlacedByReconcile(w) => MeetsMinimums(orders'[Len(orders')])]_vars

\* a buying worker whose replacement failed holds the order that its
\* reconcile has placed, for the whole remaining amount, on the market with
\* the higher minimum cost
C40_ReconcilePlaced ==
    \E w \in WorkerIds :
        /\ workers[w].exch = "BINANCE"
        /\ workers[w].side = "buy"
        /\ "update_failed" \in workers[w].notes
        /\ workers[w].order.owner = w
        /\ workers[w].order.amount = workers[w].remaining
        /\ MeetsMinimums(workers[w].order)
====
